---- MODULE Spec2Model ----
(***************************************************************************)
(* A model of the Squat compile-and-execute pipeline: the instruction      *)
(* chunk with its run-length encoded line table, the deduplicating         *)
(* constant pool, the single-pass Pratt compiler and the stack VM.         *)
(***************************************************************************)
EXTENDS Integers, Sequences, FiniteSets, TLC

VARIABLES
    chunk,        \* Chunk: [code, current_instruction, lines]
    written,      \* history: the line passed to every Chunk::write so far
    cleared,      \* history: clear_instructions has been called
    last_next,    \* history: what the last Chunk::next returned
    pool,         \* ValueArray.values
    writes,       \* history: [value, index, grew] of every ValueArray::write
    panicked,     \* the process aborted on a Rust panic
    source,       \* the tokens of the program given to interpret_source
    pc,           \* "source", "run" (inside interpret_chunk) or "done"
    compiler,     \* what compile left: status, histories
    stack,        \* VM.stack
    call_stack,   \* VM.call_stack
    globals,      \* VM.globals
    had_error,    \* VM.had_error
    result,       \* the InterpretResult, once there is one
    output,       \* history: what print and println wrote
    executed,     \* history: the last instruction executed, what it consumed
    main_return,  \* history: the first Return executed while main runs
    entered,      \* history: per scope, the stack size when it was entered
    calls,        \* history: the machine at each Call that has not returned
    lexer,        \* Lexer: [source, start, current_index, source_iterator, line]
    scanned,      \* history: what every Lexer::scan_token so far returned
    compared      \* two SquatTypes and, once compared, whether they are equal

vars ==
    <<chunk, written, cleared, last_next, pool, writes, panicked, source, pc,
      compiler, stack, call_stack, globals, had_error, result, output,
      executed, main_return, entered, calls, lexer, scanned, compared>>

(***************************************************************************)
(* Bounds of the model.                                                    *)
(***************************************************************************)
MaxWrites == 3
MaxLine == 2
MaxPoolWrites == 3
MaxBody == 2

(***************************************************************************)
(* Option<T>                                                               *)
(***************************************************************************)
None == [some |-> FALSE, v |-> 0]
Some(x) == [some |-> TRUE, v |-> x]

(***************************************************************************)
(* OpCode: one record shape for every arm, a and b its immediates.         *)
(***************************************************************************)
Op(name) == [op |-> name, a |-> 0, b |-> 0]
Op1(name, x) == [op |-> name, a |-> x, b |-> 0]
Op2(name, x, y) == [op |-> name, a |-> x, b |-> y]

NoOp == Op("None")

(***************************************************************************)
(* Chunk                                                                   *)
(***************************************************************************)
Line_new(line) == [line |-> line, count |-> 1]

Chunk_new == [code |-> <<>>, current_instruction |-> 0, lines |-> <<>>]

Chunk_get_size(c) == Len(c.code)

\* code[i] with the code's 0-based index
CodeAt(c, i) == c.code[i + 1]

\* The two nested loops of get_line: entry e of the table, its j-th repeat,
\* i the running instruction index.
RECURSIVE GetLineLoop(_, _, _, _, _)
GetLineLoop(lines, e, j, i, op_index) ==
    IF e > Len(lines) THEN None
    ELSE IF j >= lines[e].count THEN GetLineLoop(lines, e + 1, 0, i, op_index)
    ELSE IF i = op_index THEN Some(lines[e].line)
    ELSE GetLineLoop(lines, e, j + 1, i + 1, op_index)

Chunk_get_line(c, op_index) == GetLineLoop(c.lines, 1, 0, 0, op_index)

IsJumpOp(o) == o.op \in {"JumpIfFalse", "Jump", "JumpIfTrue"}

\* set_jump_at panics on an index past the code and on a non-jump instruction.
Chunk_set_jump_at_panics(c, location) ==
    \/ location >= Len(c.code)
    \/ ~IsJumpOp(CodeAt(c, location))

Chunk_set_jump_at(c, location, offset) ==
    [c EXCEPT !.code[location + 1] = Op1(CodeAt(c, location).op, offset)]

\* next: [op, chunk]; op is None at the end of the code.
Chunk_next(c) ==
    IF c.current_instruction < Len(c.code)
    THEN [op |-> Some(CodeAt(c, c.current_instruction)),
          chunk |-> [c EXCEPT !.current_instruction = @ + 1]]
    ELSE [op |-> None, chunk |-> c]

Chunk_write_always_merges(c, op_code, line) ==
    LET n == Len(c.lines) IN
    IF n > 0
    THEN [c EXCEPT !.code = Append(@, op_code), !.lines[n].count = @ + 1]
    ELSE [c EXCEPT !.code = Append(@, op_code),
                   !.lines = Append(@, Line_new(line))]

Chunk_write(c, op_code, line) ==
    LET n == Len(c.lines) IN
    IF n > 0 /\ c.lines[n].line = line
    THEN [c EXCEPT !.code = Append(@, op_code), !.lines[n].count = @ + 1]
    ELSE [c EXCEPT !.code = Append(@, op_code),
                   !.lines = Append(@, Line_new(line))]

Chunk_clear_instructions(c) == [c EXCEPT !.code = <<>>]

RECURSIVE SumCounts(_)
SumCounts(lines) ==
    IF lines = <<>> THEN 0 ELSE lines[1].count + SumCounts(Tail(lines))

(***************************************************************************)
(* SquatValue.  One record shape for every variant: t the variant, i the   *)
(* integer payload, s the text payload (a sequence of characters), p the   *)
(* property values of an instance.                                         *)
(***************************************************************************)
Val(t, i, s, p) == [t |-> t, i |-> i, s |-> s, p |-> p]
NilV == Val("Nil", 0, <<>>, <<>>)
NumberV(n) == Val("Number", n, <<>>, <<>>)
NumberNaN == Val("Number", 0, <<"N", "a", "N">>, <<>>)
StringV(s) == Val("String", 0, s, <<>>)
BoolV(b) == Val("Bool", IF b THEN 1 ELSE 0, <<>>, <<>>)
FunctionV(name, start) == Val("Function", start, name, <<>>)

IsNaN(v) == v.t \in {"Number", "Float"} /\ v.s = <<"N", "a", "N">>

\* f64 == : a NaN equals nothing, itself included.
F64_eq(a, b) == ~IsNaN(a) /\ ~IsNaN(b) /\ a.i = b.i

\* impl PartialEq for SquatValue of the value module holding ValueArray:
\* an Object equals nothing.
SquatValue_eq(a, b) ==
    CASE a.t = "Nil" /\ b.t = "Nil" -> TRUE
      [] a.t = "Number" /\ b.t = "Number" -> F64_eq(a, b)
      [] a.t = "String" /\ b.t = "String" -> a.s = b.s
      [] a.t = "Bool" /\ b.t = "Bool" -> a.i = b.i
      [] OTHER -> FALSE


(***************************************************************************)
(* SquatType.  One record shape for every variant: k the variant, params   *)
(* the parameter (or field) types, ret the return type as a sequence of at *)
(* most one type, name the struct name.                                    *)
(***************************************************************************)
Ty(k) == [k |-> k, params |-> <<>>, ret |-> <<>>, name |-> <<>>]
NilT == Ty("Nil")
IntT == Ty("Int")
FloatT == Ty("Float")
StringT == Ty("String")
BoolT == Ty("Bool")
TypeT == Ty("Type")
NumberT == Ty("Number")
AnyT == Ty("Any")
FunctionT(params, ret) ==
    [k |-> "Function", params |-> params, ret |-> <<ret>>, name |-> <<>>]
NativeFunctionT(params, ret) ==
    [k |-> "NativeFunction", params |-> params, ret |-> <<ret>>, name |-> <<>>]

ClassT(name, field_types) ==
    [k |-> "Class", params |-> field_types, ret |-> <<>>, name |-> name]
InstanceT(name) == [k |-> "Instance", params |-> <<>>, ret |-> <<>>, name |-> name]

SquatFunctionTypeData_get_arity(data) == Len(data.params)
SquatFunctionTypeData_get_return_type(data) == data.ret[1]

\* impl PartialEq for SquatType.  SquatStructTypeData derives PartialEq: the
\* name and the field types, compared one by one (the names of the fields
\* are not part of a type here).
RECURSIVE SquatType_eq(_, _)
\* SquatType_eq with Struct types compared by name alone
SquatType_eq_struct_by_name(x, y) ==
    CASE x.k = "Any" \/ y.k = "Any" -> TRUE
      [] x.k \in {"Nil", "Int", "Float", "Bool", "Type", "String"} /\ y.k = x.k
            -> TRUE
      [] x.k = "Number" /\ y.k \in {"Number", "Int", "Float"} -> TRUE
      [] x.k \in {"Int", "Float"} /\ y.k = "Number" -> TRUE
      [] x.k \in {"Function", "NativeFunction"} /\ y.k = x.k ->
            /\ Len(x.params) = Len(y.params)
            /\ \A n \in 1..Len(x.params) : SquatType_eq(x.params[n], y.params[n])
            /\ SquatType_eq(x.ret[1], y.ret[1])
      [] x.k \in {"Struct", "Class", "Instance"} /\ y.k = x.k -> x.name = y.name
      [] OTHER -> FALSE
SquatType_eq(x, y) ==
    CASE x.k = "Any" \/ y.k = "Any" -> TRUE
      [] x.k \in {"Nil", "Int", "Float", "Bool", "Type", "String"} /\ y.k = x.k
            -> TRUE
      [] x.k = "Number" /\ y.k \in {"Number", "Int", "Float"} -> TRUE
      [] x.k \in {"Int", "Float"} /\ y.k = "Number" -> TRUE
      [] x.k \in {"Function", "NativeFunction"} /\ y.k = x.k ->
            /\ Len(x.params) = Len(y.params)
            /\ \A n \in 1..Len(x.params) : SquatType_eq(x.params[n], y.params[n])
            /\ SquatType_eq(x.ret[1], y.ret[1])
      [] x.k \in {"Struct", "Class", "Instance"} /\ y.k = x.k ->
            /\ x.name = y.name
            /\ Len(x.params) = Len(y.params)
            /\ \A n \in 1..Len(x.params) : SquatType_eq(x.params[n], y.params[n])
      [] OTHER -> FALSE

(***************************************************************************)
(* The SquatValue of the compiler and the VM.                              *)
(***************************************************************************)
IntV(n) == Val("Int", n, <<>>, <<>>)
\* A Float's payload counts tenths: FloatV(15) is 1.5
FloatV(tenths) == Val("Float", tenths, <<>>, <<>>)
NativeFunctionV(name) == Val("NativeFunction", 0, name, <<>>)

\* impl PartialEq for SquatObject
SquatObject_eq(x, y) ==
    CASE x.t = "Function" /\ y.t = "Function" -> x.i = y.i
      [] x.t = "NativeFunction" /\ y.t = "NativeFunction" -> x.s = y.s
      [] x.t = "Class" /\ y.t = "Class" -> x.s = y.s
      [] x.t = "Instance" /\ y.t = "Instance" -> x.s = y.s /\ x.p = y.p
      [] OTHER -> FALSE

IsObject(v) == v.t \in {"Function", "NativeFunction", "Class", "Instance"}

\* #[derive(PartialEq)] on the SquatValue of squat_value.rs
SquatValue_derived_eq(x, y) ==
    CASE IsObject(x) /\ IsObject(y) -> SquatObject_eq(x, y)
      [] x.t = "Float" /\ y.t = "Float" -> F64_eq(x, y)
      [] x.t = "Type" /\ y.t = "Type" -> SquatType_eq(x.p[1], y.p[1])
      [] x.t = y.t -> x.i = y.i /\ x.s = y.s
      [] OTHER -> FALSE

SquatValue_is_truthy(v) == ~(v.t = "Nil" \/ (v.t = "Bool" /\ v.i = 0))

\* The == of the element type of a ValueArray: "value" is the SquatValue
\* defined beside ValueArray, "squat_value" the one the compiler stores.
ValueEq(kind, a, b) ==
    IF kind = "value" THEN SquatValue_eq(a, b) ELSE SquatValue_derived_eq(a, b)

\* values.iter().position(|v| *v == value)
RECURSIVE PositionFrom(_, _, _, _)
PositionFrom(values, value, k, kind) ==
    IF k > Len(values) THEN None
    ELSE IF ValueEq(kind, values[k], value) THEN Some(k - 1)
    ELSE PositionFrom(values, value, k + 1, kind)

\* ValueArray::write: [values, index]
ValueArray_write(values, value, kind) ==
    LET found == PositionFrom(values, value, 1, kind) IN
    IF found.some
    THEN [values |-> values, index |-> found.v]
    ELSE [values |-> Append(values, value), index |-> Len(values)]

(***************************************************************************)
(* Names and lexemes are sequences of characters.                          *)
(***************************************************************************)
n_main == <<"m", "a", "i", "n">>
n_input == <<"i", "n", "p", "u", "t">>
n_print == <<"p", "r", "i", "n", "t">>
n_println == <<"p", "r", "i", "n", "t", "l", "n">>
n_cbrt == <<"c", "b", "r", "t">>
n_sqrt == <<"s", "q", "r", "t">>
n_pow == <<"p", "o", "w">>
n_to_int == <<"t", "o", "_", "i", "n", "t">>
n_to_float == <<"t", "o", "_", "f", "l", "o", "a", "t">>
n_exit == <<"e", "x", "i", "t">>
n_time == <<"t", "i", "m", "e">>
n_type == <<"t", "y", "p", "e">>
n_to_str == <<"t", "o", "_", "s", "t", "r">>

\* VM::define_native_functions: the natives in registration order.
Natives ==
    << [name |-> n_input, ty |-> NativeFunctionT(<<>>, StringT)],
       [name |-> n_print, ty |-> NativeFunctionT(<<AnyT>>, NilT)],
       [name |-> n_println, ty |-> NativeFunctionT(<<AnyT>>, NilT)],
       [name |-> n_cbrt, ty |-> NativeFunctionT(<<NumberT>>, FloatT)],
       [name |-> n_sqrt, ty |-> NativeFunctionT(<<NumberT>>, FloatT)],
       [name |-> n_pow, ty |-> NativeFunctionT(<<NumberT, NumberT>>, FloatT)],
       [name |-> n_to_int, ty |-> NativeFunctionT(<<AnyT>>, IntT)],
       [name |-> n_to_float, ty |-> NativeFunctionT(<<AnyT>>, FloatT)],
       [name |-> n_exit, ty |-> NativeFunctionT(<<IntT>>, NilT)],
       [name |-> n_time, ty |-> NativeFunctionT(<<>>, FloatT)],
       [name |-> n_type, ty |-> NativeFunctionT(<<AnyT>>, TypeT)],
       [name |-> n_to_str, ty |-> NativeFunctionT(<<AnyT>>, StringT)] >>

(***************************************************************************)
(* Tokens.  The lexer is its scan_token interface: the items it returns in *)
(* order, a token or an error, and Eof for ever after the last.            *)
(***************************************************************************)
Tok(type, lexeme, line) == [type |-> type, lexeme |-> lexeme, line |-> line]
NoToken == Tok("NoToken", <<>>, 0)
\* A token as it is written, its line left open
W(type, lexeme) == [type |-> type, lexeme |-> lexeme]

LastLine(toks) == IF toks = <<>> THEN 1 ELSE toks[Len(toks)].line

Lexer_scan_token(toks, pos) ==
    IF pos <= Len(toks) THEN toks[pos] ELSE Tok("Eof", <<>>, LastLine(toks))

(***************************************************************************)
(* Lexer.  The source is a sequence of characters; start and current_index *)
(* are byte offsets into it, source_iterator is the number of characters   *)
(* the Peekable<Chars> has given out.  A character outside ASCII takes two *)
(* bytes, and a str is sliced at character boundaries only.                *)
(***************************************************************************)
NonAscii == "U+00E9"

ByteLen(ch) == IF ch = NonAscii THEN 2 ELSE 1

\* The bytes the first k characters take
RECURSIVE ByteOffset(_, _)
ByteOffset(text, k) ==
    IF k = 0 THEN 0 ELSE ByteOffset(text, k - 1) + ByteLen(text[k])

\* str::len
Str_len(text) == ByteOffset(text, Len(text))

IsCharBoundary(text, b) == \E k \in 0..Len(text) : ByteOffset(text, k) = b

CharsBefore(text, b) == CHOOSE k \in 0..Len(text) : ByteOffset(text, k) = b

\* str::get(a..b): None unless a <= b and both lie on character boundaries;
\* source[a..b] panics where get is None
Str_get(text, a, b) ==
    IF a <= b /\ IsCharBoundary(text, a) /\ IsCharBoundary(text, b)
    THEN Some(SubSeq(text, CharsBefore(text, a) + 1, CharsBefore(text, b)))
    ELSE None

Lexer_new(text) ==
    [source |-> text, start |-> 0, current_index |-> 0, source_iterator |-> 0,
     line |-> 1, panicked |-> FALSE]

\* What a call returns: the lexer after it and the token or error
Returned(lx, item) == [lx |-> lx, item |-> item]
LexerError(kind, line) == Tok("LexError", <<kind>>, line)
Lexer_panic(lx) == Returned([lx EXCEPT !.panicked = TRUE], NoToken)

\* source_iterator.peek()
Lexer_peek(lx) ==
    IF lx.source_iterator < Len(lx.source)
    THEN Some(lx.source[lx.source_iterator + 1])
    ELSE None

\* source_iterator.next(), the character dropped
Lexer_iterator_next(lx) ==
    IF lx.source_iterator < Len(lx.source)
    THEN [lx EXCEPT !.source_iterator = @ + 1]
    ELSE lx

Lexer_advance(lx) ==
    [Lexer_iterator_next(lx) EXCEPT !.current_index = @ + 1]

Lexer_make_token(lx, token_type) ==
    IF Str_get(lx.source, lx.start, lx.current_index).some
    THEN Returned(lx, Tok(token_type,
                          Str_get(lx.source, lx.start, lx.current_index).v,
                          lx.line))
    ELSE Lexer_panic(lx)

\* peek_next: TRUE, and one advance, when the byte after current_index is ch
Lexer_peek_next(lx, ch) ==
    /\ Str_get(lx.source, lx.current_index + 1, lx.current_index + 2).some
    /\ Str_get(lx.source, lx.current_index + 1, lx.current_index + 2).v = <<ch>>

Lexer_is_at_end(lx) == lx.current_index >= Str_len(lx.source)

\* char::is_ascii_alphabetic, and char::is_numeric on ASCII
Letters ==
    {"a", "b", "c", "d", "e", "f", "g", "h", "i", "j", "k", "l", "m", "n",
     "o", "p", "q", "r", "s", "t", "u", "v", "w", "x", "y", "z",
     "A", "B", "C", "D", "E", "F", "G", "H", "I", "J", "K", "L", "M", "N",
     "O", "P", "Q", "R", "S", "T", "U", "V", "W", "X", "Y", "Z"}
Digits == {"0", "1", "2", "3", "4", "5", "6", "7", "8", "9"}

\* The rest of a single line comment: up to and with the line's end
RECURSIVE SingleLineLoop(_)
SingleLineLoop(lx) ==
    IF ~Lexer_peek(lx).some THEN lx
    ELSE IF Lexer_peek(lx).v = "\n"
    THEN [lx EXCEPT !.line = @ + 1, !.current_index = @ + 1]
    ELSE SingleLineLoop(Lexer_advance(lx))

\* The rest of a multi line comment: [lx, complete_comment]
RECURSIVE MultiLineLoop(_)
MultiLineLoop_line(lx, counted) ==
    IF Lexer_peek(lx).v = "*" /\ Lexer_peek_next(lx, "/")
    THEN [lx |-> [Lexer_advance(counted) EXCEPT !.current_index = @ + 1],
          complete_comment |-> TRUE]
    ELSE MultiLineLoop(Lexer_advance(counted))

MultiLineLoop(lx) ==
    IF ~Lexer_peek(lx).some THEN [lx |-> lx, complete_comment |-> FALSE]
    ELSE MultiLineLoop_line(lx,
                            IF Lexer_peek(lx).v = "\n"
                            THEN [lx EXCEPT !.line = @ + 1] ELSE lx)

\* The loop of comments_and_whitespaces: [lx, err], err an Option of the
\* LexerError
RECURSIVE BlankLoop(_)
BlankLoop_multi_line(r) ==
    IF r.complete_comment THEN BlankLoop(Lexer_iterator_next(r.lx))
    ELSE [lx |-> r.lx,
          err |-> Some(LexerError("IncompleteComment", r.lx.line))]

BlankLoop(lx) ==
    IF ~Lexer_peek(lx).some THEN [lx |-> lx, err |-> None]
    ELSE IF Lexer_peek(lx).v \in {" ", "\r", "\t"}
    THEN BlankLoop(Lexer_iterator_next([lx EXCEPT !.current_index = @ + 1]))
    ELSE IF Lexer_peek(lx).v = "\n"
    THEN BlankLoop(Lexer_iterator_next([lx EXCEPT !.line = @ + 1,
                                                  !.current_index = @ + 1]))
    ELSE IF Lexer_peek(lx).v = "/" /\ Lexer_peek_next(lx, "/")
    THEN BlankLoop(Lexer_iterator_next(SingleLineLoop(Lexer_advance(lx))))
    ELSE IF Lexer_peek(lx).v = "/" /\ Lexer_peek_next(lx, "*")
    THEN BlankLoop_multi_line(MultiLineLoop(Lexer_advance(Lexer_advance(lx))))
    ELSE [lx |-> lx, err |-> None]

Lexer_comments_and_whitespaces(lx) ==
    BlankLoop([lx EXCEPT !.start = lx.current_index])

Keywords ==
    {W("And", <<"a", "n", "d">>), W("Break", <<"b", "r", "e", "a", "k">>),
     W("Class", <<"c", "l", "a", "s", "s">>), W("Else", <<"e", "l", "s", "e">>),
     W("Extends", <<"e", "x", "t", "e", "n", "d", "s">>),
     W("False", <<"f", "a", "l", "s", "e">>), W("For", <<"f", "o", "r">>),
     W("Func", <<"f", "u", "n", "c">>), W("If", <<"i", "f">>),
     W("Nil", <<"n", "i", "l">>), W("Or", <<"o", "r">>),
     W("Return", <<"r", "e", "t", "u", "r", "n">>),
     W("Static", <<"s", "t", "a", "t", "i", "c">>),
     W("Super", <<"s", "u", "p", "e", "r">>), W("This", <<"t", "h", "i", "s">>),
     W("True", <<"t", "r", "u", "e">>), W("Var", <<"v", "a", "r">>),
     W("While", <<"w", "h", "i", "l", "e">>),
     W("BoolType", <<"b", "o", "o", "l">>),
     W("FloatType", <<"f", "l", "o", "a", "t">>),
     W("IntType", <<"i", "n", "t">>),
     W("StringType", <<"s", "t", "r", "i", "n", "g">>)}

IdentifierType(lexeme) ==
    IF \E k \in Keywords : k.lexeme = lexeme
    THEN (CHOOSE k \in Keywords : k.lexeme = lexeme).type
    ELSE "Identifier"

RECURSIVE IdentifierLoop(_)
IdentifierLoop(lx) ==
    IF Lexer_peek(lx).some /\ Lexer_peek(lx).v \in Letters \cup {"_"} \cup Digits
    THEN IdentifierLoop(Lexer_advance(lx))
    ELSE lx

\* identifier, its first character taken: source.get(start..current_index)
\* is unwrapped
Lexer_identifier_lexeme(lx) ==
    IF ~Str_get(lx.source, lx.start, lx.current_index).some THEN Lexer_panic(lx)
    ELSE Lexer_make_token(lx, IdentifierType(
                                 Str_get(lx.source, lx.start, lx.current_index).v))

Lexer_identifier(lx) == Lexer_identifier_lexeme(IdentifierLoop(lx))

RECURSIVE DigitsLoop(_)
DigitsLoop(lx) ==
    IF Lexer_peek(lx).some /\ Lexer_peek(lx).v \in Digits
    THEN DigitsLoop(Lexer_advance(lx))
    ELSE lx

Lexer_number_fraction(lx) ==
    IF Lexer_peek(lx) = Some(".")
    THEN Lexer_make_token(DigitsLoop(Lexer_advance(lx)), "Number")
    ELSE Lexer_make_token(lx, "Number")

\* number, its first digit taken
Lexer_number(lx) == Lexer_number_fraction(DigitsLoop(lx))

SingleCharacter ==
    {W("LeftParenthesis", <<"(">>), W("RightParenthesis", <<")">>),
     W("LeftBrace", <<"{">>), W("RightBrace", <<"}">>),
     W("LeftBracket", <<"[">>), W("RightBracket", <<"]">>),
     W("Comma", <<",">>), W("Dot", <<".">>), W("Minus", <<"-">>),
     W("Semicolon", <<";">>), W("Slash", <<"/">>), W("Star", <<"*">>),
     W("Percent", <<"%">>), W("Colon", <<":">>), W("Question", <<"?">>)}

\* The one or two character tokens: first, the second that joins it, the
\* token of the two, the token of the first alone
OneOrTwo ==
    {[first |-> "!", second |-> "=", two |-> "BangEqual", one |-> "Bang"],
     [first |-> "=", second |-> "=", two |-> "EqualEqual", one |-> "Equal"],
     [first |-> "<", second |-> "=", two |-> "LessEqual", one |-> "Less"],
     [first |-> ">", second |-> "=", two |-> "GreaterEqual", one |-> "Greater"],
     [first |-> "+", second |-> "+", two |-> "PlusPlus", one |-> "Plus"]}

Lexer_one_or_two(lx, t) ==
    IF ~Lexer_peek(lx).some
    THEN Returned(lx, LexerError("InternalError", lx.line))
    ELSE IF Lexer_peek(lx).v = t.second
    THEN Lexer_make_token(Lexer_advance(lx), t.two)
    ELSE Lexer_make_token(lx, t.one)

RECURSIVE StringLoop(_)
StringLoop(lx) ==
    IF ~Lexer_peek(lx).some \/ Lexer_peek(lx) = Some("\"") THEN lx
    ELSE IF Lexer_peek(lx).v = "\n"
    THEN StringLoop(Lexer_advance([lx EXCEPT !.line = @ + 1]))
    ELSE StringLoop(Lexer_advance(lx))

Lexer_string_token(r) ==
    IF r.lx.panicked THEN r ELSE Returned(Lexer_advance(r.lx), r.item)

\* A string literal, its opening quote taken: the quotes are left out
Lexer_string(lx) ==
    IF Lexer_is_at_end(lx)
    THEN Returned(lx, LexerError("IncompleteString", lx.line))
    ELSE Lexer_string_token(Lexer_make_token([lx EXCEPT !.start = @ + 1],
                                             "String"))

\* scan_token from the character c on, c taken from the iterator
Lexer_scan_character(lx, c) ==
    IF c \in Letters \cup {"_"} THEN Lexer_identifier(lx)
    ELSE IF c \in Digits THEN Lexer_number(lx)
    ELSE IF \E t \in SingleCharacter : t.lexeme = <<c>>
    THEN Lexer_make_token(lx, (CHOOSE t \in SingleCharacter :
                                  t.lexeme = <<c>>).type)
    ELSE IF \E t \in OneOrTwo : t.first = c
    THEN Lexer_one_or_two(lx, CHOOSE t \in OneOrTwo : t.first = c)
    ELSE IF c = "\"" THEN Lexer_string(StringLoop(lx))
    ELSE IF Str_get(lx.source, lx.start, lx.current_index).some
    THEN Returned(lx, LexerError("UndefinedToken", lx.line))
    ELSE Lexer_panic(lx)

Lexer_scan_after_blank(lx) ==
    IF Lexer_peek(lx).some
    THEN Lexer_scan_character(Lexer_advance(lx), Lexer_peek(lx).v)
    ELSE Lexer_make_token(lx, "Eof")

\* Lexer::scan_token on the source text
Lexer_scan_token_blank(r) ==
    IF r.err.some THEN Returned(r.lx, r.err.v)
    ELSE Lexer_scan_after_blank([r.lx EXCEPT !.start = r.lx.current_index])

Lexer_scan_token_text(lx) == Lexer_scan_token_blank(Lexer_comments_and_whitespaces(lx))

Digit(ch) ==
    CASE ch = "0" -> 0 [] ch = "1" -> 1 [] ch = "2" -> 2 [] ch = "3" -> 3
      [] ch = "4" -> 4 [] ch = "5" -> 5 [] ch = "6" -> 6 [] ch = "7" -> 7
      [] ch = "8" -> 8 [] ch = "9" -> 9

\* str::parse::<i64> of a run of digits
RECURSIVE ParseDigits(_, _)
ParseDigits(lexeme, acc) ==
    IF lexeme = <<>> THEN acc
    ELSE ParseDigits(Tail(lexeme), acc * 10 + Digit(Head(lexeme)))

Contains(lexeme, ch) == \E n \in 1..Len(lexeme) : lexeme[n] = ch

DotAt(lexeme) == CHOOSE n \in 1..Len(lexeme) : lexeme[n] = "."

\* str::parse::<f64> of digits '.' digit, in tenths
ParseTenths(lexeme) ==
    ParseDigits(SubSeq(lexeme, 1, DotAt(lexeme) - 1), 0) * 10
        + Digit(lexeme[DotAt(lexeme) + 1])

(***************************************************************************)
(* Compiler: the state of one compilation, threaded through its methods.   *)
(* ty is the SquatType the last expression rule returned, res the Result   *)
(* of the last parse_variable (its ok also the Some or Ok of the last      *)
(* get_type), arg_count the count of the last argument list, param_types   *)
(* the types of the last parameter list; patches, scopes and errors are    *)
(* histories.                                                              *)
(***************************************************************************)
Compiler_new(toks) ==
    [toks |-> toks, pos |-> 1,
     previous_token |-> NoToken, current_token |-> NoToken,
     main_chunk |-> Chunk_new, constants |-> <<>>,
     globals |-> <<>>, locals |-> <<>>,
     scope_depth |-> 0, scope_type |-> "Global",
     function_return_type |-> NilT,
     had_error |-> FALSE, panic_mode |-> FALSE,
     main_start |-> 0, found_main |-> FALSE,
     panicked |-> FALSE,
     ty |-> NilT,
     res |-> [ok |-> FALSE, index |-> 0, name |-> <<>>],
     arg_count |-> 0, param_types |-> <<>>, classes |-> <<>>,
     patches |-> <<>>, scopes |-> <<>>, errors |-> <<>>]

CurType(c) == c.current_token.type
PrevType(c) == c.previous_token.type
Abort(c) == [c EXCEPT !.panicked = TRUE]
WithTy(c, t) == [c EXCEPT !.ty = t]

Compiler_compile_error_at_line(c, tag) ==
    [c EXCEPT !.had_error = TRUE, !.panic_mode = TRUE,
              !.errors = Append(@, tag)]

\* compile_error reads previous_token.unwrap().line
Compiler_compile_error(c, tag) ==
    IF c.previous_token = NoToken THEN Abort(c)
    ELSE Compiler_compile_error_at_line(c, tag)

Compiler_compile_warning(c) ==
    IF c.previous_token = NoToken THEN Abort(c) ELSE c

\* The loop of advance: lexer errors are reported and skipped.
RECURSIVE AdvanceLoop(_)
AdvanceLoop_n(c, item, n) ==
    IF item.type = "LexError"
    THEN AdvanceLoop(Compiler_compile_error_at_line(
                        [c EXCEPT !.pos = n], "lexer error"))
    ELSE [c EXCEPT !.pos = n, !.current_token = item]

AdvanceLoop_item(c, item) ==
    AdvanceLoop_n(c,
                  item,
                  IF c.pos <= Len(c.toks) THEN c.pos + 1 ELSE c.pos)

AdvanceLoop(c) ==
    AdvanceLoop_item(c, Lexer_scan_token(c.toks, c.pos))

Compiler_advance(c) ==
    IF c.panicked THEN c
    ELSE AdvanceLoop(IF c.current_token # NoToken
                     THEN [c EXCEPT !.previous_token = c.current_token]
                     ELSE c)

Compiler_consume_current(c, expected_type, tag) ==
    IF CurType(c) = expected_type THEN Compiler_advance(c)
    ELSE Compiler_compile_error(c, tag)

\* write_op_code reads previous_token.unwrap().line
Compiler_write_op_code(c, op_code) ==
    IF c.panicked THEN c
    ELSE IF c.previous_token = NoToken THEN Abort(c)
    ELSE [c EXCEPT !.main_chunk =
                      Chunk_write(c.main_chunk, op_code, c.previous_token.line)]

\* emit_jump returns the index of the jump it wrote: Len(code) - 1 afterwards
Compiler_emit_jump(c, name) == Compiler_write_op_code(c, Op1(name, 0 - 1))
JumpLocation(c) == Chunk_get_size(c.main_chunk) - 1

Compiler_patch_jump_off_by_one(c, op_location) ==
    IF c.panicked THEN c
    ELSE IF Chunk_set_jump_at_panics(c.main_chunk, op_location) THEN Abort(c)
    ELSE [c EXCEPT !.main_chunk =
                      Chunk_set_jump_at(c.main_chunk, op_location,
                          Chunk_get_size(c.main_chunk) - op_location),
                   !.patches = Append(@, [branch_ip |-> op_location,
                       target_ip |-> Chunk_get_size(c.main_chunk)])]

Compiler_patch_jump(c, op_location) ==
    IF c.panicked THEN c
    ELSE IF Chunk_set_jump_at_panics(c.main_chunk, op_location) THEN Abort(c)
    ELSE [c EXCEPT !.main_chunk =
                      Chunk_set_jump_at(c.main_chunk, op_location,
                          Chunk_get_size(c.main_chunk) - op_location - 1),
                   !.patches = Append(@, [branch_ip |-> op_location,
                       target_ip |-> Chunk_get_size(c.main_chunk)])]

Compiler_emit_loop(c, loop_start) ==
    Compiler_write_op_code(c, Op1("Loop", loop_start))

Compiler_constants_write_r(c, r) ==
    [c EXCEPT !.constants = r.values, !.res.index = r.index]

Compiler_constants_write(c, value) ==
    Compiler_constants_write_r(c,
                               ValueArray_write(c.constants, value, "squat_value"))

(***************************************************************************)
(* Compiler: names.                                                        *)
(***************************************************************************)
RECURSIVE NativePosition(_, _)
NativePosition(name, k) ==
    IF k > Len(Natives) THEN None
    ELSE IF Natives[k].name = name THEN Some(k - 1)
    ELSE NativePosition(name, k + 1)

Compiler_resolve_native(c, name) == NativePosition(name, 1)

\* globals: the HashMap as its entries in insertion order; an entry's index
\* field is the len() of the map when it was inserted.
GlobalEntry(c, name) ==
    IF \E g \in 1..Len(c.globals) : c.globals[g].name = name
    THEN Some(CHOOSE g \in 1..Len(c.globals) : c.globals[g].name = name)
    ELSE None

\* resolve_global: the entry of that name, once it is initialized
Compiler_resolve_global_ignores_initialized(c, name) == GlobalEntry(c, name)

Compiler_resolve_global(c, name) ==
    LET e == GlobalEntry(c, name) IN
    IF e.some /\ c.globals[e.v].initialized THEN e ELSE None

\* resolve_local: the innermost local of that name whose depth is set
RECURSIVE ResolveLocalLoop(_, _, _)
ResolveLocalLoop(locals, name, k) ==
    IF k < 1 THEN None
    ELSE IF locals[k].name = name /\ locals[k].depth.some THEN Some(k - 1)
    ELSE ResolveLocalLoop(locals, name, k - 1)

Compiler_resolve_local(c, name) == ResolveLocalLoop(c.locals, name, Len(c.locals))

\* The scan of parse_variable for a local of that name in the current scope:
\* TRUE when one exists.
RECURSIVE SameScopeLoop(_, _, _, _)
SameScopeLoop_ignores_depth(locals, name, depth, k) ==
    IF k < 1 THEN FALSE
    ELSE IF locals[k].name = name THEN TRUE
    ELSE SameScopeLoop(locals, name, depth, k - 1)

SameScopeLoop(locals, name, depth, k) ==
    IF k < 1 THEN FALSE
    ELSE IF locals[k].depth.some /\ locals[k].depth.v < depth THEN FALSE
    ELSE IF locals[k].name = name THEN TRUE
    ELSE SameScopeLoop(locals, name, depth, k - 1)

Ok(index, name) == [ok |-> TRUE, index |-> index, name |-> name]
Err == [ok |-> FALSE, index |-> 0, name |-> <<>>]

Compiler_parse_variable_name_from_one(c1, name) ==
    IF c1.panicked THEN c1
    ELSE IF c1.previous_token = NoToken THEN Abort(c1)
    ELSE IF Compiler_resolve_native(c1, name).some
    THEN [Compiler_compile_error(c1, "is a native object") EXCEPT !.res = Err]
    ELSE IF c1.scope_depth > 0
    THEN IF SameScopeLoop(c1.locals, name, c1.scope_depth, Len(c1.locals))
         THEN [Compiler_compile_error(c1, "already exists in this scope")
                  EXCEPT !.res = Err]
         ELSE [c1 EXCEPT !.locals = Append(@, [name |-> name, depth |-> None,
                                               ty |-> None]),
                         !.res = Ok(Len(c1.locals), name)]
    ELSE IF GlobalEntry(c1, name).some
    THEN [Compiler_compile_error(c1, "is already defined") EXCEPT !.res = Err]
    ELSE [c1 EXCEPT !.globals = Append(@, [name |-> name,
                                           index |-> Len(c1.globals) + 1,
                                           initialized |-> FALSE,
                                           ty |-> None]),
                    !.res = Ok(Len(c1.globals) + 1, name)]

\* parse_variable once the name is consumed
Compiler_parse_variable_name(c1, name) ==
    IF c1.panicked THEN c1
    ELSE IF c1.previous_token = NoToken THEN Abort(c1)
    ELSE IF Compiler_resolve_native(c1, name).some
    THEN [Compiler_compile_error(c1, "is a native object") EXCEPT !.res = Err]
    ELSE IF c1.scope_depth > 0
    THEN IF SameScopeLoop(c1.locals, name, c1.scope_depth, Len(c1.locals))
         THEN [Compiler_compile_error(c1, "already exists in this scope")
                  EXCEPT !.res = Err]
         ELSE [c1 EXCEPT !.locals = Append(@, [name |-> name, depth |-> None,
                                               ty |-> None]),
                         !.res = Ok(Len(c1.locals), name)]
    ELSE IF GlobalEntry(c1, name).some
    THEN [Compiler_compile_error(c1, "is already defined") EXCEPT !.res = Err]
    ELSE [c1 EXCEPT !.globals = Append(@, [name |-> name,
                                           index |-> Len(c1.globals),
                                           initialized |-> FALSE,
                                           ty |-> None]),
                    !.res = Ok(Len(c1.globals), name)]

Compiler_parse_variable_c1(c1) ==
    Compiler_parse_variable_name(c1, c1.previous_token.lexeme)

Compiler_parse_variable(c, tag) ==
    Compiler_parse_variable_c1(Compiler_consume_current(c, "Identifier", tag))

\* locals.last_mut().unwrap() and globals.get_mut(name).unwrap()
Compiler_initialize_object(c, name) ==
    IF c.panicked THEN c
    ELSE IF c.scope_depth > 0
    THEN IF c.locals = <<>> THEN Abort(c)
         ELSE [c EXCEPT !.locals[Len(c.locals)].depth = Some(c.scope_depth)]
    ELSE IF ~GlobalEntry(c, name).some THEN Abort(c)
    ELSE [c EXCEPT !.globals[GlobalEntry(c, name).v].initialized = TRUE]

Compiler_patch_function(c, name, data) ==
    IF c.panicked THEN c
    ELSE IF ~GlobalEntry(c, name).some THEN Abort(c)
    ELSE [c EXCEPT !.globals[GlobalEntry(c, name).v].ty = Some(data)]

Compiler_define_object(c, index) ==
    IF c.scope_depth > 0 THEN c
    ELSE Compiler_write_op_code(c, Op1("DefineGlobal", index))

Compiler_define_variable(c, index, name, squat_type) ==
    IF c.panicked THEN c
    ELSE IF c.scope_depth > 0
    THEN IF c.locals = <<>> THEN Abort(c)
         ELSE [c EXCEPT !.locals[Len(c.locals)].depth = Some(c.scope_depth),
                        !.locals[Len(c.locals)].ty = Some(squat_type)]
    ELSE IF ~GlobalEntry(c, name).some THEN Abort(c)
    ELSE Compiler_write_op_code(
            [c EXCEPT !.globals[GlobalEntry(c, name).v].initialized = TRUE,
                      !.globals[GlobalEntry(c, name).v].ty = Some(squat_type)],
            Op1("DefineGlobal", index))

\* CompilerLocal::get_type / CompilerGlobal::get_type
VariableType(entry) == IF entry.ty.some THEN entry.ty.v ELSE NilT

Compiler_check_types(c, expected_type, type_to_check) ==
    IF expected_type.some /\ ~SquatType_eq(type_to_check, expected_type.v)
    THEN Compiler_compile_error(c, "type mismatch")
    ELSE c

TypesAgree(expected_type, type_to_check) ==
    ~(expected_type.some /\ ~SquatType_eq(type_to_check, expected_type.v))

(***************************************************************************)
(* Compiler: scopes.                                                       *)
(***************************************************************************)
Compiler_begin_scope(c) ==
    [c EXCEPT !.scope_depth = @ + 1,
              !.scopes = Append(@, [begin_ip |-> Chunk_get_size(c.main_chunk),
                                    depth |-> c.scope_depth + 1,
                                    locals |-> Len(c.locals),
                                    kind |-> "function",
                                    pop_ip |-> 0 - 1, end_ip |-> 0 - 1,
                                    declared |-> 0 - 1])]

LocalDepth(l) == IF l.depth.some THEN l.depth.v ELSE 0

RECURSIVE EndScopeLoop(_)
EndScopeLoop_pops_one_at_most(c) ==
    IF c.panicked THEN c
    ELSE IF Len(c.locals) > 0 /\ LocalDepth(c.locals[Len(c.locals)]) > c.scope_depth
    THEN [Compiler_write_op_code(c, Op("Pop"))
            EXCEPT !.locals = SubSeq(@, 1, Len(@) - 1)]
    ELSE c

\* The loop of end_scope: one Pop for every local deeper than the scope left
EndScopeLoop(c) ==
    IF c.panicked THEN c
    ELSE IF Len(c.locals) > 0 /\ LocalDepth(c.locals[Len(c.locals)]) > c.scope_depth
    THEN EndScopeLoop([Compiler_write_op_code(c, Op("Pop"))
                          EXCEPT !.locals = SubSeq(@, 1, Len(@) - 1)])
    ELSE c

\* The scope record this end_scope closes: the last one still open.
OpenScope(c) ==
    IF \E n \in 1..Len(c.scopes) : c.scopes[n].end_ip < 0
    THEN Some(CHOOSE n \in 1..Len(c.scopes) :
                 /\ c.scopes[n].end_ip < 0
                 /\ \A m \in (n + 1)..Len(c.scopes) : c.scopes[m].end_ip >= 0)
    ELSE None

Compiler_end_scope_o(c, c1, c2, o) ==
    IF o.some /\ ~c2.panicked
    THEN [c2 EXCEPT !.scopes[o.v].pop_ip = Chunk_get_size(c1.main_chunk),
                    !.scopes[o.v].end_ip = Chunk_get_size(c2.main_chunk),
                    !.scopes[o.v].declared =
                        Len(c.locals) - c.scopes[o.v].locals]
    ELSE c2

Compiler_end_scope_c2(c, c1, c2) ==
    Compiler_end_scope_o(c, c1, c2, OpenScope(c))

Compiler_end_scope_c1(c, c1) ==
    Compiler_end_scope_c2(c, c1, EndScopeLoop(c1))

\* scope_depth is a u32: leaving a scope at depth 0 underflows.
Compiler_end_scope(c) ==
    IF c.panicked THEN c
    ELSE IF c.scope_depth = 0 THEN Abort(c)
    ELSE Compiler_end_scope_c1(c, [c EXCEPT !.scope_depth = @ - 1])

(***************************************************************************)
(* Compiler: expression rules.                                             *)
(***************************************************************************)
P_None == 0
P_Assignment == 1
P_Ternary == 2
P_Or == 3
P_And == 4
P_Equality == 5
P_Comparison == 6
P_Term == 7
P_Factor == 8
P_Unary == 9
P_Call == 10
P_Primary == 11

\* impl Add<u8> for Precedence
Precedence_add(p, rhs) == IF p + rhs <= P_Primary THEN p + rhs ELSE P_None

Compiler_get_precedence(token_type) ==
    CASE token_type \in {"Plus", "Minus", "Percent"} -> P_Term
      [] token_type \in {"Star", "Slash"} -> P_Factor
      [] token_type \in {"BangEqual", "EqualEqual"} -> P_Equality
      [] token_type \in {"Greater", "GreaterEqual", "Less", "LessEqual"}
            -> P_Comparison
      [] token_type = "And" -> P_And
      [] token_type = "Or" -> P_Or
      [] token_type = "Question" -> P_Ternary
      [] token_type = "LeftParenthesis" -> P_Call
      [] OTHER -> P_None

BinaryTokens ==
    {"Minus", "Plus", "Slash", "Star", "Percent", "BangEqual", "EqualEqual",
     "Greater", "GreaterEqual", "Less", "LessEqual"}

BinaryOpCode_greater_equal_as_less_equal(token_type) ==
    CASE token_type = "Plus" -> Op("Add")
      [] token_type = "Minus" -> Op("Subtract")
      [] token_type = "Star" -> Op("Multiply")
      [] token_type = "Slash" -> Op("Divide")
      [] token_type = "Percent" -> Op("Mod")
      [] token_type = "BangEqual" -> Op("NotEqual")
      [] token_type = "EqualEqual" -> Op("Equal")
      [] token_type = "Greater" -> Op("Greater")
      [] token_type = "GreaterEqual" -> Op("LessEqual")
      [] token_type = "Less" -> Op("Less")
      [] token_type = "LessEqual" -> Op("LessEqual")

BinaryOpCode(token_type) ==
    CASE token_type = "Plus" -> Op("Add")
      [] token_type = "Minus" -> Op("Subtract")
      [] token_type = "Star" -> Op("Multiply")
      [] token_type = "Slash" -> Op("Divide")
      [] token_type = "Percent" -> Op("Mod")
      [] token_type = "BangEqual" -> Op("NotEqual")
      [] token_type = "EqualEqual" -> Op("Equal")
      [] token_type = "Greater" -> Op("Greater")
      [] token_type = "GreaterEqual" -> Op("GreaterEqual")
      [] token_type = "Less" -> Op("Less")
      [] token_type = "LessEqual" -> Op("LessEqual")

Compiler_check_current(c, expected_type) ==
    IF CurType(c) = expected_type THEN Compiler_advance(c) ELSE c

Compiler_literal(c) ==
    CASE PrevType(c) = "False" -> WithTy(Compiler_write_op_code(c, Op("False")), BoolT)
      [] PrevType(c) = "Nil" -> WithTy(Compiler_write_op_code(c, Op("Nil")), NilT)
      [] PrevType(c) = "True" -> WithTy(Compiler_write_op_code(c, Op("True")), BoolT)
      [] OTHER -> Abort(c)

Compiler_number_c1(lexeme, c1) ==
    WithTy(Compiler_write_op_code(c1, Op1("Constant", c1.res.index)),
           IF Contains(lexeme, ".") THEN FloatT ELSE IntT)

Compiler_number_lexeme(c, lexeme) ==
    Compiler_number_c1(lexeme,
                       IF Contains(lexeme, ".")
                       THEN Compiler_constants_write(c, FloatV(ParseTenths(lexeme)))
                       ELSE Compiler_constants_write(c, IntV(ParseDigits(lexeme, 0))))

Compiler_number(c) ==
    Compiler_number_lexeme(c, c.previous_token.lexeme)

Compiler_string_c1(c1) ==
    WithTy(Compiler_write_op_code(c1, Op1("Constant", c1.res.index)), StringT)

Compiler_string(c) ==
    Compiler_string_c1(Compiler_constants_write(c, StringV(c.previous_token.lexeme)))

ClassEntry(c, name) ==
    IF \E n \in 1..Len(c.classes) : c.classes[n].name = name
    THEN Some(CHOOSE n \in 1..Len(c.classes) : c.classes[n].name = name)
    ELSE None

FieldEntry(class, name) ==
    IF \E n \in 1..Len(class.fields) : class.fields[n].name = name
    THEN Some(CHOOSE n \in 1..Len(class.fields) :
                 /\ class.fields[n].name = name
                 /\ \A m \in (n + 1)..Len(class.fields) :
                        class.fields[m].name # name)
    ELSE None

Compiler_property_field(get_op_code, c1, class, field) ==
    IF c1.panicked THEN c1
    ELSE IF ~class.some THEN Abort(c1)
    ELSE IF ~field.some
    THEN WithTy(Compiler_compile_error(c1, "no such property"), NilT)
    ELSE WithTy(
           Compiler_write_op_code(c1,
               IF ~get_op_code.some
               THEN Op1("GetProperty", field.v - 1)
               ELSE IF get_op_code.v.op = "GetGlobal"
               THEN Op2("GetGlobalProperty", get_op_code.v.a, field.v - 1)
               ELSE Op2("GetLocalProperty", get_op_code.v.a, field.v - 1)),
           c1.classes[class.v].fields[field.v].ty)

Compiler_property_class(get_op_code, c1, class) ==
    Compiler_property_field(get_op_code,
                            c1,
                            class,
                            FieldEntry(c1.classes[class.v], c1.previous_token.lexeme))

Compiler_property_c1(object_data, get_op_code, c1) ==
    Compiler_property_class(get_op_code,
                            c1,
                            ClassEntry(c1, object_data.name))

\* get_op_code is an Option of the GetGlobal or GetLocal just resolved
Compiler_property(c, object_data, get_op_code) ==
    IF c.panicked THEN c
    ELSE IF object_data.k # "Instance"
    THEN WithTy(Compiler_compile_error(c, "'.' on a non-instance"), NilT)
    ELSE Compiler_property_c1(object_data,
                              get_op_code,
                              Compiler_consume_current(c, "Identifier", "property name"))

RECURSIVE Compiler_parse_precedence(_, _, _)
RECURSIVE InfixLoop(_, _, _, _)
RECURSIVE Compiler_ternary(_, _)
RECURSIVE Compiler_and(_)
RECURSIVE Compiler_or(_)
RECURSIVE Compiler_binary(_, _)
RECURSIVE Compiler_call(_, _)
RECURSIVE CallArgsLoop(_, _, _)
RECURSIVE Compiler_grouping(_, _)
RECURSIVE Compiler_unary(_, _)
RECURSIVE Compiler_variable(_)
RECURSIVE Compiler_call_prefix(_, _, _)
RECURSIVE Compiler_call_infix(_, _, _)

Compiler_expression_with_type(c, expected_type) ==
    Compiler_parse_precedence(c, P_Assignment, expected_type)

Compiler_expression(c) == Compiler_expression_with_type(c, None)

Compiler_parse_precedence_c2(c, precedence, expected_type, c1, c2) ==
    IF c.panicked THEN c
    ELSE IF c1.previous_token = NoToken THEN Abort(c1)
    ELSE IF c2.panicked THEN c2
    ELSE IF ~TypesAgree(expected_type, c2.ty)
    THEN WithTy(Compiler_compile_error(c2, "type mismatch"), expected_type.v)
    ELSE InfixLoop(c2, precedence, expected_type, c2.ty)

Compiler_parse_precedence_c1(c, precedence, expected_type, c1) ==
    Compiler_parse_precedence_c2(c,
                                 precedence,
                                 expected_type,
                                 c1,
                                 Compiler_call_prefix(c1, PrevType(c1), expected_type))

Compiler_parse_precedence(c, precedence, expected_type) ==
    Compiler_parse_precedence_c1(c,
                                 precedence,
                                 expected_type,
                                 Compiler_advance(c))

InfixLoop(c, precedence, expected_type, prefix_type) ==
    IF c.panicked THEN c
    ELSE IF precedence <= Compiler_get_precedence(CurType(c))
    THEN LET c1 == Compiler_advance(c) IN
         IF PrevType(c1) = "Question"
         THEN Compiler_ternary(c1, expected_type)
         ELSE InfixLoop(Compiler_call_infix(c1, PrevType(c1), Some(prefix_type)),
                        precedence, expected_type, prefix_type)
    ELSE WithTy(c, prefix_type)

Compiler_ternary_c4(c, c1, c3, expression_type, c4) ==
    LET else_jump == JumpLocation(c1)
        end_jump == JumpLocation(c4)
        c5 == Compiler_patch_jump(c4, else_jump)
        c6 == Compiler_write_op_code(c5, Op("Pop"))
        c7 == Compiler_consume_current(c6, "Colon", "':' after true ternary block")
        c8 == Compiler_parse_precedence(c7, Precedence_add(P_Ternary, 1),
                                        Some(expression_type))
    IN  IF c.panicked THEN c
        ELSE IF c3.panicked THEN c3
        ELSE WithTy(Compiler_patch_jump(c8, end_jump), expression_type)

Compiler_ternary_expression_type(c, c1, c3, expression_type) ==
    Compiler_ternary_c4(c,
                        c1,
                        c3,
                        expression_type,
                        Compiler_emit_jump(c3, "Jump"))

Compiler_ternary_c3(c, c1, c3) ==
    Compiler_ternary_expression_type(c, c1, c3, c3.ty)

Compiler_ternary_c1(c, expected_type, c1) ==
    LET c2 == Compiler_write_op_code(c1, Op("Pop"))
    IN  Compiler_ternary_c3(c,
                            c1,
                            Compiler_parse_precedence(c2, Precedence_add(P_Ternary, 1),
                                                      expected_type))

Compiler_ternary(c, expected_type) ==
    Compiler_ternary_c1(c,
                        expected_type,
                        Compiler_emit_jump(c, "JumpIfFalse"))

Compiler_and_c1(c, c1) ==
    LET end_jump == JumpLocation(c1)
        c2 == Compiler_write_op_code(c1, Op("Pop"))
        c3 == Compiler_parse_precedence(c2, P_And, None)
    IN  IF c.panicked THEN c
        ELSE WithTy(Compiler_patch_jump(c3, end_jump), BoolT)

Compiler_and(c) ==
    Compiler_and_c1(c, Compiler_emit_jump(c, "JumpIfFalse"))

Compiler_or_c1(c, c1) ==
    LET end_jump == JumpLocation(c1)
        c2 == Compiler_write_op_code(c1, Op("Pop"))
        c3 == Compiler_parse_precedence(c2, P_Or, None)
    IN  IF c.panicked THEN c
        ELSE WithTy(Compiler_patch_jump(c3, end_jump), BoolT)

Compiler_or(c) ==
    Compiler_or_c1(c, Compiler_emit_jump(c, "JumpIfTrue"))

Compiler_binary_c2(c, token_type, c1, rhs_type, c2) ==
    IF c.panicked THEN c
    ELSE IF c1.panicked THEN c1
    ELSE IF token_type \notin BinaryTokens THEN Abort(c2)
    ELSE WithTy(Compiler_write_op_code(c2, BinaryOpCode(token_type)), rhs_type)

Compiler_binary_rhs_type(c, expected_type, token_type, c1, rhs_type) ==
    Compiler_binary_c2(c,
                       token_type,
                       c1,
                       rhs_type,
                       Compiler_check_types(c1, expected_type, rhs_type))

Compiler_binary_c1(c, expected_type, token_type, c1) ==
    Compiler_binary_rhs_type(c, expected_type, token_type, c1, c1.ty)

Compiler_binary_token_type(c, expected_type, token_type) ==
    LET precedence == Compiler_get_precedence(token_type)
    IN  Compiler_binary_c1(c,
                           expected_type,
                           token_type,
                           Compiler_parse_precedence(c, Precedence_add(precedence, 1),
                                                     expected_type))

Compiler_binary(c, expected_type) ==
    Compiler_binary_token_type(c, expected_type, PrevType(c))

CallArgsLoop_c1(data, arg_count, c1) ==
    IF c1.panicked THEN c1
    ELSE IF arg_count >= SquatFunctionTypeData_get_arity(data) THEN Abort(c1)
    ELSE CallArgsLoop(
           Compiler_check_current(
               Compiler_check_types(c1, Some(data.params[arg_count + 1]),
                                    c1.ty),
               "Comma"),
           data, arg_count + 1)

\* The argument loop of call: `while !check_current(RightParenthesis) &&
\* arg_count <= arity`; get_param_type is unreachable!() past the last one.
CallArgsLoop(c, data, arg_count) ==
    IF c.panicked THEN c
    ELSE IF CurType(c) = "RightParenthesis"
    THEN [Compiler_advance(c) EXCEPT !.arg_count = arg_count]
    ELSE IF arg_count > SquatFunctionTypeData_get_arity(data)
    THEN [c EXCEPT !.arg_count = arg_count]
    ELSE CallArgsLoop_c1(data, arg_count, Compiler_expression(c))

Compiler_call_return_type(c1, c3, return_type) ==
    IF c1.panicked THEN c1
    ELSE IF CurType(c3) = "LeftParenthesis"
    THEN Compiler_call(Compiler_advance(c3), return_type)
    ELSE IF CurType(c3) = "Dot"
    THEN Compiler_property(Compiler_advance(c3), return_type, None)
    ELSE WithTy(c3, return_type)

Compiler_call_c3(object_data, c1, c3) ==
    Compiler_call_return_type(c1,
                              c3,
                              IF object_data.k = "Class"
                              THEN InstanceT(object_data.name)
                              ELSE SquatFunctionTypeData_get_return_type(object_data))

Compiler_call_c1(object_data, c1) ==
    LET c2 == IF c1.arg_count # SquatFunctionTypeData_get_arity(object_data)
              THEN Compiler_compile_error(c1, "wrong argument count")
              ELSE c1
    IN  Compiler_call_c3(object_data,
                         c1,
                         Compiler_write_op_code(c2,
                            IF object_data.k = "Class"
                            THEN Op1("CreateInstance", c1.arg_count)
                            ELSE Op1("Call", c1.arg_count)))

\* A Function or NativeFunction is called with Call, a Class with
\* CreateInstance over its field types; anything else is unreachable!().
Compiler_call(c, object_data) ==
    IF c.panicked THEN c
    ELSE IF object_data.k \notin {"Function", "NativeFunction", "Class"}
    THEN Abort(c)
    ELSE Compiler_call_c1(object_data, CallArgsLoop(c, object_data, 0))

Compiler_grouping_c1(c1) ==
    WithTy(Compiler_consume_current(c1, "RightParenthesis", "closing ')'"), c1.ty)

Compiler_grouping(c, expected_type) ==
    Compiler_grouping_c1(Compiler_expression_with_type(c, expected_type))

Compiler_unary_c2(c, token_type, c1, expression_type, c2) ==
    IF c.panicked THEN c
    ELSE IF c1.panicked THEN c1
    ELSE CASE token_type = "Bang" ->
                WithTy(Compiler_write_op_code(c2, Op("Not")), BoolT)
           [] token_type = "Minus" ->
                WithTy(Compiler_write_op_code(c2, Op("Negate")), expression_type)
           [] OTHER -> Abort(c2)

Compiler_unary_expression_type(c, expected_type, token_type, c1, expression_type) ==
    Compiler_unary_c2(c,
                      token_type,
                      c1,
                      expression_type,
                      Compiler_check_types(c1, expected_type, expression_type))

Compiler_unary_c1(c, expected_type, token_type, c1) ==
    Compiler_unary_expression_type(c,
                                   expected_type,
                                   token_type,
                                   c1,
                                   c1.ty)

Compiler_unary_token_type(c, expected_type, token_type) ==
    Compiler_unary_c1(c,
                      expected_type,
                      token_type,
                      Compiler_parse_precedence(c, P_Unary, expected_type))

Compiler_unary(c, expected_type) ==
    Compiler_unary_token_type(c, expected_type, PrevType(c))

ResolveName_n(c, l, g, n) ==
    IF l.some
    THEN LET t == VariableType(c.locals[l.v + 1]) IN
         [found |-> TRUE, set_op_code |-> Op1("SetLocal", l.v),
          get_op_code |-> Op1("GetLocal", l.v), variable_type |-> t,
          object_type |-> CASE t.k = "Function" -> "Function"
                            [] t.k = "Instance" -> "Instance"
                            [] OTHER -> "NotObject"]
    ELSE IF g.some
    THEN LET t == VariableType(c.globals[g.v]) IN
         [found |-> TRUE, set_op_code |-> Op1("SetGlobal", c.globals[g.v].index),
          get_op_code |-> Op1("GetGlobal", c.globals[g.v].index),
          variable_type |-> t,
          object_type |-> CASE t.k = "Function" -> "Function"
                            [] t.k = "Instance" -> "Instance"
                            [] t.k = "Class" -> "Class"
                            [] OTHER -> "NotObject"]
    ELSE IF n.some
    THEN [found |-> TRUE, set_op_code |-> Op("Nil"),
          get_op_code |-> Op1("GetNative", n.v),
          variable_type |-> Natives[n.v + 1].ty,
          object_type |-> IF Natives[n.v + 1].ty.k = "NativeFunction"
                          THEN "Function" ELSE "NotObject"]
    ELSE [found |-> FALSE, set_op_code |-> NoOp, get_op_code |-> NoOp,
          variable_type |-> NilT, object_type |-> "NotObject"]

ResolveName_g(c, var_name, l, g) ==
    ResolveName_n(c, l, g, Compiler_resolve_native(c, var_name))

ResolveName_l(c, var_name, l) ==
    ResolveName_g(c,
                  var_name,
                  l,
                  Compiler_resolve_global(c, var_name))

\* The name resolved as variable does: a local, else a global, else a native.
ResolveName(c, var_name) ==
    ResolveName_l(c, var_name, Compiler_resolve_local(c, var_name))

Compiler_variable_r(c, r) ==
    IF c.panicked THEN c
    ELSE IF ~r.found
    THEN WithTy(Compiler_compile_error(c, "is not defined"), NilT)
    ELSE IF CurType(c) = "Equal"
    THEN LET c1 == Compiler_advance(c) IN
         IF r.object_type \in {"Class", "Function"}
         THEN WithTy(Compiler_compile_error(c1, "cannot change assignment"), NilT)
         ELSE WithTy(Compiler_write_op_code(
                        Compiler_expression_with_type(c1, Some(r.variable_type)),
                        r.set_op_code),
                     r.variable_type)
    ELSE IF r.object_type \in {"Class", "Function"}
    THEN LET c1 == Compiler_write_op_code(c, r.get_op_code) IN
         IF CurType(c1) = "LeftParenthesis"
         THEN Compiler_call(Compiler_advance(c1), r.variable_type)
         ELSE WithTy(c1, r.variable_type)
    ELSE IF r.object_type = "Instance" /\ CurType(c) = "Dot"
    THEN Compiler_property(Compiler_advance(c), r.variable_type,
                           Some(r.get_op_code))
    ELSE WithTy(Compiler_write_op_code(c, r.get_op_code), r.variable_type)

Compiler_variable(c) ==
    Compiler_variable_r(c, ResolveName(c, c.previous_token.lexeme))

Compiler_call_prefix(c, token_type, expected_type) ==
    CASE token_type = "LeftParenthesis" -> Compiler_grouping(c, expected_type)
      [] token_type \in {"Bang", "Minus"} -> Compiler_unary(c, expected_type)
      [] token_type = "Number" -> Compiler_number(c)
      [] token_type \in {"False", "Nil", "True"} -> Compiler_literal(c)
      [] token_type = "String" -> Compiler_string(c)
      [] token_type = "Identifier" -> Compiler_variable(c)
      [] token_type = "Eof" -> WithTy(c, NilT)
      [] OTHER -> WithTy(Compiler_compile_error(c, "illegal expression"), NilT)

\* Any other token panics: "No infix is given for ..."
Compiler_call_infix(c, token_type, expected_type) ==
    CASE token_type \in BinaryTokens -> Compiler_binary(c, expected_type)
      [] token_type = "And" -> Compiler_and(c)
      [] token_type = "Or" -> Compiler_or(c)
      [] OTHER -> Abort(c)

(***************************************************************************)
(* Compiler: types in declarations.                                        *)
(***************************************************************************)
SomeTy(c, t) == [c EXCEPT !.ty = t, !.res.ok = TRUE]
NoTy(c) == [c EXCEPT !.ty = NilT, !.res.ok = FALSE]

RECURSIVE Compiler_get_type(_)
RECURSIVE Compiler_parse_function_type(_)
RECURSIVE FunctionTypeLoop(_, _)

Compiler_get_parameter_type_c1(c1) ==
    IF c1.panicked \/ c1.res.ok THEN c1
    ELSE NoTy(Compiler_compile_error(c1, "expected parameter type"))

Compiler_get_parameter_type(c) ==
    Compiler_get_parameter_type_c1(Compiler_get_type(c))

Compiler_get_return_type(c) == Compiler_get_type(c)

FunctionTypeLoop_c1(param_types, c1) ==
    IF c1.panicked \/ ~c1.res.ok THEN c1
    ELSE IF CurType(c1) = "Comma"
    THEN FunctionTypeLoop(Compiler_advance(c1), Append(param_types, c1.ty))
    ELSE [c1 EXCEPT !.param_types = Append(param_types, c1.ty)]

\* The parameter types of a function type, after the first get_parameter_type
FunctionTypeLoop(c, param_types) ==
    FunctionTypeLoop_c1(param_types, Compiler_get_parameter_type(c))

Compiler_parse_function_type_c3(c, c1, c3) ==
    LET param_types == c1.param_types
    IN  IF c.panicked THEN c
        ELSE IF c1.panicked THEN c1
        ELSE IF ~c1.res.ok THEN WithTy(c1, NilT)
        ELSE WithTy(c3, FunctionT(param_types, IF c3.res.ok THEN c3.ty ELSE NilT))

Compiler_parse_function_type_c1(c, c1) ==
    LET c2 == Compiler_consume_current(c1, "RightParenthesis", "closing ')'")
    IN  Compiler_parse_function_type_c3(c,
                                        c1,
                                        Compiler_get_return_type(c2))

Compiler_parse_function_type(c) ==
    Compiler_parse_function_type_c1(c,
                                    IF CurType(c) = "RightParenthesis"
                                    THEN [Compiler_advance(c) EXCEPT !.param_types = <<>>, !.res.ok = TRUE]
                                    ELSE FunctionTypeLoop(c, <<>>))

Compiler_get_type(c) ==
    IF c.panicked THEN c
    ELSE CASE CurType(c) = "BoolType" -> SomeTy(Compiler_advance(c), BoolT)
           [] CurType(c) = "IntType" -> SomeTy(Compiler_advance(c), IntT)
           [] CurType(c) = "FloatType" -> SomeTy(Compiler_advance(c), FloatT)
           [] CurType(c) = "StringType" -> SomeTy(Compiler_advance(c), StringT)
           [] CurType(c) = "Func" ->
                LET c1 == Compiler_advance(c) IN
                IF CurType(c1) # "LeftParenthesis"
                THEN NoTy(Compiler_compile_error(c1, "expected '(' of function type"))
                ELSE LET c2 == Compiler_parse_function_type(Compiler_advance(c1))
                     IN  [c2 EXCEPT !.res.ok = TRUE]
           [] CurType(c) = "Identifier"
                /\ ClassEntry(c, c.current_token.lexeme).some ->
                SomeTy(Compiler_advance(c), InstanceT(c.current_token.lexeme))
           [] OTHER -> NoTy(c)

(***************************************************************************)
(* Compiler: variable declarations.                                        *)
(***************************************************************************)
\* The default value a declaration without initialiser stores, if any
DefaultValue(squat_type) ==
    CASE squat_type.k = "Int" -> Some(IntV(0))
      [] squat_type.k = "Float" -> Some(FloatV(0))
      [] squat_type.k = "String" -> Some(StringV(<<>>))
      [] squat_type.k = "Bool" -> Some(BoolV(FALSE))
      [] OTHER -> None

Compiler_var_declaration_c4(c, squat_type, c1, c2, c4) ==
    LET index == c1.res.index
        name == c1.res.name
        var_type == IF CurType(c1) = "Equal" THEN c2.ty ELSE squat_type.v
    IN  IF c.panicked THEN c
        ELSE IF c1.panicked \/ ~c1.res.ok THEN c1
        ELSE IF CurType(c1) # "Equal" /\ ~squat_type.some
        THEN Compiler_compile_error(c1, "'var' without a value")
        ELSE IF CurType(c1) # "Equal"
                /\ squat_type.v.k \notin {"Int", "Float", "String", "Bool",
                                          "Function", "NativeFunction", "Class"}
        THEN Abort(c1)
        ELSE IF c4.panicked THEN c4
        ELSE Compiler_define_variable(
                Compiler_consume_current(c4, "Semicolon",
                                         "';' after variable declaration"),
                index, name, var_type)

Compiler_var_declaration_d(c, squat_type, c1, c2, d) ==
    LET c3 == IF d.some
              THEN LET w == Compiler_constants_write(c1, d.v) IN
                   Compiler_write_op_code(w, Op1("Constant", w.res.index))
              ELSE Compiler_write_op_code(
                       Compiler_compile_error(c1, "must define"), Op("Nil"))
    IN  Compiler_var_declaration_c4(c,
                                    squat_type,
                                    c1,
                                    c2,
                                    IF CurType(c1) = "Equal" THEN c2 ELSE c3)

Compiler_var_declaration_c2(c, squat_type, c1, c2) ==
    Compiler_var_declaration_d(c,
                               squat_type,
                               c1,
                               c2,
                               DefaultValue(squat_type.v))

Compiler_var_declaration_c1(c, squat_type, c1) ==
    Compiler_var_declaration_c2(c,
                                squat_type,
                                c1,
                                Compiler_expression_with_type(Compiler_advance(c1), squat_type))

Compiler_var_declaration(c, squat_type) ==
    Compiler_var_declaration_c1(c,
                                squat_type,
                                Compiler_parse_variable(c, "variable name"))

Compiler_function_var_declaration_c1(c1) ==
    IF c1.panicked THEN c1 ELSE Compiler_var_declaration(c1, Some(c1.ty))

Compiler_function_var_declaration(c) ==
    Compiler_function_var_declaration_c1(Compiler_parse_function_type(c))

\* The tokens try_var_declaration accepts
StartsVarDeclaration(c) ==
    \/ CurType(c) \in {"Var", "BoolType", "IntType", "FloatType", "StringType"}
    \/ ClassEntry(c, c.current_token.lexeme).some

Compiler_try_var_declaration(c) ==
    CASE CurType(c) = "Var" -> Compiler_var_declaration(Compiler_advance(c), None)
      [] CurType(c) = "BoolType" ->
            Compiler_var_declaration(Compiler_advance(c), Some(BoolT))
      [] CurType(c) = "IntType" ->
            Compiler_var_declaration(Compiler_advance(c), Some(IntT))
      [] CurType(c) = "FloatType" ->
            Compiler_var_declaration(Compiler_advance(c), Some(FloatT))
      [] CurType(c) = "StringType" ->
            Compiler_var_declaration(Compiler_advance(c), Some(StringT))
      [] OTHER ->
            Compiler_var_declaration(Compiler_advance(c),
                                     Some(InstanceT(c.current_token.lexeme)))

(***************************************************************************)
(* Compiler: statement rules.                                              *)
(***************************************************************************)
ScopeKind(c, kind) ==
    IF c.scopes = <<>> THEN c ELSE [c EXCEPT !.scopes[Len(c.scopes)].kind = kind]

RECURSIVE SynchronizeLoop(_)
SynchronizeLoop(c) ==
    IF c.panicked \/ CurType(c) = "Eof" THEN c
    ELSE IF CurType(c) \in {"RightBrace", "Semicolon"} THEN Compiler_advance(c)
    ELSE SynchronizeLoop(Compiler_advance(c))

Compiler_synchronize_clears_had_error(c) ==
    SynchronizeLoop([c EXCEPT !.panic_mode = FALSE, !.had_error = FALSE])

\* synchronize: panic_mode is cleared, tokens are skipped to past a ';' or '}'
Compiler_synchronize(c) == SynchronizeLoop([c EXCEPT !.panic_mode = FALSE])

Compiler_return_statement_c1(c1) ==
    LET c2 == IF ~SquatType_eq(c1.function_return_type, c1.ty)
              THEN Compiler_compile_error(c1, "return type mismatch")
              ELSE c1
    IN  IF c1.panicked THEN c1
        ELSE Compiler_write_op_code(
                Compiler_consume_current(c2, "Semicolon", "';' after return value"),
                Op("Return"))

Compiler_return_statement(c) ==
    Compiler_return_statement_c1(Compiler_expression(c))

Compiler_expression_statement(c) ==
    Compiler_write_op_code(
        Compiler_consume_current(Compiler_expression(c), "Semicolon",
                                 "';' after expression"),
        Op("Pop"))

RECURSIVE Compiler_declaration_statement(_, _)
RECURSIVE Compiler_statement(_)
RECURSIVE Compiler_if_statement(_)
RECURSIVE Compiler_while_statement(_)
RECURSIVE Compiler_for_statement(_)
RECURSIVE Compiler_block(_, _)
RECURSIVE Compiler_function_declaration(_)
RECURSIVE ParametersLoop(_, _)

Compiler_block(c, expected_return_type) ==
    IF c.panicked THEN c
    ELSE IF CurType(c) = "RightBrace" THEN Compiler_advance(c)
    ELSE IF CurType(c) = "Eof"
    THEN Compiler_compile_error(Compiler_advance(c), "expected closing '}'")
    ELSE Compiler_block(
            Compiler_declaration_statement(c, Some(expected_return_type)),
            expected_return_type)

Compiler_statement(c) ==
    IF c.panicked THEN c
    ELSE CASE CurType(c) = "If" -> Compiler_if_statement(Compiler_advance(c))
           [] CurType(c) = "While" -> Compiler_while_statement(Compiler_advance(c))
           [] CurType(c) = "For" -> Compiler_for_statement(Compiler_advance(c))
           [] CurType(c) = "LeftBrace" ->
                Compiler_end_scope(
                    Compiler_block(
                        ScopeKind(Compiler_begin_scope(Compiler_advance(c)), "block"),
                        NilT))
           [] OTHER -> Compiler_expression_statement(c)

Compiler_if_statement_c7(c2, c5, c6, c7) ==
    LET else_jump == JumpLocation(c6)
        c8 == IF CurType(c7) = "Else"
              THEN Compiler_statement(Compiler_advance(c7))
              ELSE c7
    IN  IF c2.panicked THEN c2
        ELSE IF c5.panicked THEN c5
        ELSE Compiler_patch_jump(c8, else_jump)

Compiler_if_statement_c6(c2, c4, c5, c6) ==
    LET then_jump == JumpLocation(c4)
    IN  Compiler_if_statement_c7(c2,
                                 c5,
                                 c6,
                                 Compiler_write_op_code(Compiler_patch_jump(c6, then_jump), Op("Pop")))

Compiler_if_statement_c5(c2, c4, c5) ==
    Compiler_if_statement_c6(c2,
                             c4,
                             c5,
                             Compiler_emit_jump(c5, "Jump"))

Compiler_if_statement_c4(c2, c4) ==
    Compiler_if_statement_c5(c2,
                             c4,
                             Compiler_statement(Compiler_write_op_code(c4, Op("Pop"))))

Compiler_if_statement_c2(c2) ==
    LET c3 == Compiler_consume_current(c2, "RightParenthesis", "closing ')'")
    IN  Compiler_if_statement_c4(c2,
                                 Compiler_emit_jump(c3, "JumpIfFalse"))

Compiler_if_statement(c) ==
    LET c1 == Compiler_consume_current(c, "LeftParenthesis", "'(' after 'if'")
    IN  Compiler_if_statement_c2(Compiler_expression(c1))

Compiler_while_statement_c5(c, c2, c4, c5) ==
    LET loop_start == Chunk_get_size(c.main_chunk)
        exit_jump == JumpLocation(c4)
        c6 == Compiler_emit_loop(c5, loop_start)
    IN  IF c2.panicked THEN c2
        ELSE IF c5.panicked THEN c5
        ELSE Compiler_write_op_code(Compiler_patch_jump(c6, exit_jump), Op("Pop"))

Compiler_while_statement_c4(c, c2, c4) ==
    Compiler_while_statement_c5(c,
                                c2,
                                c4,
                                Compiler_statement(Compiler_write_op_code(c4, Op("Pop"))))

Compiler_while_statement_c2(c, c2) ==
    LET c3 == Compiler_consume_current(c2, "RightParenthesis", "closing ')'")
    IN  Compiler_while_statement_c4(c,
                                    c2,
                                    Compiler_emit_jump(c3, "JumpIfFalse"))

Compiler_while_statement(c) ==
    LET c1 == Compiler_consume_current(c, "LeftParenthesis", "'(' after 'while'")
    IN  Compiler_while_statement_c2(c, Compiler_expression(c1))

Compiler_for_statement_c6(c, c2, has_condition, c3, c5, c6) ==
    LET exit_jump == Chunk_get_size(c3.main_chunk) - 2
        c7 == IF has_condition
              THEN Compiler_write_op_code(Compiler_patch_jump(c6, exit_jump),
                                          Op("Pop"))
              ELSE c6
    IN  IF c.panicked THEN c
        ELSE IF c2.panicked THEN c2
        ELSE IF c3.panicked THEN c3
        ELSE IF c5.panicked THEN c5
        ELSE IF c6.panicked THEN c6
        ELSE Compiler_end_scope(c7)

Compiler_for_statement_c5_loops_to_condition(c, c2, loop_start, has_condition, c3, has_increment, c4, c5) ==
    Compiler_for_statement_c6(c,
                              c2,
                              has_condition,
                              c3,
                              c5,
                              Compiler_emit_loop(Compiler_statement(c5), loop_start))

Compiler_for_statement_c5(c, c2, loop_start, has_condition, c3, has_increment, c4, c5) ==
    LET increment_start == Chunk_get_size(c4.main_chunk)
    IN  Compiler_for_statement_c6(c,
                                  c2,
                                  has_condition,
                                  c3,
                                  c5,
                                  Compiler_emit_loop(Compiler_statement(c5),
                                                     IF has_increment THEN increment_start
                                                     ELSE loop_start))

Compiler_for_statement_c4(c, c2, loop_start, has_condition, c3, has_increment, c4) ==
    LET body_jump == JumpLocation(c4)
    IN  Compiler_for_statement_c5(c,
                                  c2,
                                  loop_start,
                                  has_condition,
                                  c3,
                                  has_increment,
                                  c4,
                                  IF ~has_increment THEN Compiler_advance(c3)
                                  ELSE Compiler_patch_jump(
                                          Compiler_emit_loop(
                                              Compiler_consume_current(
                                                  Compiler_write_op_code(Compiler_expression(c4),
                                                                         Op("Pop")),
                                                  "RightParenthesis", "closing ')'"),
                                              loop_start),
                                          body_jump))

Compiler_for_statement_has_increment(c, c2, loop_start, has_condition, c3, has_increment) ==
    Compiler_for_statement_c4(c,
                              c2,
                              loop_start,
                              has_condition,
                              c3,
                              has_increment,
                              Compiler_emit_jump(c3, "Jump"))

Compiler_for_statement_c3(c, c2, loop_start, has_condition, c3) ==
    Compiler_for_statement_has_increment(c,
                                         c2,
                                         loop_start,
                                         has_condition,
                                         c3,
                                         CurType(c3) # "RightParenthesis")

Compiler_for_statement_has_condition(c, c2, loop_start, has_condition) ==
    Compiler_for_statement_c3(c,
                              c2,
                              loop_start,
                              has_condition,
                              IF ~has_condition THEN Compiler_advance(c2)
                              ELSE Compiler_write_op_code(
                                      Compiler_emit_jump(
                                          Compiler_consume_current(Compiler_expression(c2),
                                              "Semicolon", "';' after loop condition"),
                                          "JumpIfFalse"),
                                      Op("Pop")))

Compiler_for_statement_loop_start(c, c2, loop_start) ==
    Compiler_for_statement_has_condition(c,
                                         c2,
                                         loop_start,
                                         CurType(c2) # "Semicolon")

Compiler_for_statement_c2(c, c2) ==
    Compiler_for_statement_loop_start(c,
                                      c2,
                                      Chunk_get_size(c2.main_chunk))

Compiler_for_statement_c1(c, c1) ==
    Compiler_for_statement_c2(c,
                              IF StartsVarDeclaration(c1) THEN Compiler_try_var_declaration(c1)
                              ELSE IF CurType(c1) = "Semicolon" THEN Compiler_advance(c1)
                              ELSE Compiler_expression_statement(c1))

Compiler_for_statement(c) ==
    LET c0 == ScopeKind(Compiler_begin_scope(c), "for")
    IN  Compiler_for_statement_c1(c,
                                  Compiler_consume_current(c0, "LeftParenthesis", "'(' after 'for'"))

ParametersLoop_c3(param_types, c1, c2, c3) ==
    IF c1.panicked \/ ~c1.res.ok THEN c1
    ELSE IF c2.panicked \/ ~c2.res.ok THEN c2
    ELSE IF CurType(c3) = "Comma"
    THEN ParametersLoop(Compiler_advance(c3), Append(param_types, c1.ty))
    ELSE [Compiler_consume_current(c3, "RightParenthesis", "closing ')'")
             EXCEPT !.param_types = Append(param_types, c1.ty),
                    !.res.ok = TRUE]

ParametersLoop_c2(param_types, c1, c2) ==
    ParametersLoop_c3(param_types,
                      c1,
                      c2,
                      Compiler_define_variable(c2, c2.res.index, c2.res.name, c1.ty))

ParametersLoop_c1(param_types, c1) ==
    ParametersLoop_c2(param_types,
                      c1,
                      Compiler_parse_variable(c1, "parameter name"))

\* The parameters of a function declaration up to the closing ')':
\* res.ok is FALSE where function_declaration returns early.
ParametersLoop(c, param_types) ==
    ParametersLoop_c1(param_types, Compiler_get_parameter_type(c))

Compiler_function_declaration_c15(c, c1, c6, c7, c8, c9, c11, c15) ==
    LET old_scope_type == c.scope_type
    IN  IF c.panicked THEN c
        ELSE IF c1.panicked \/ ~c1.res.ok THEN c1
        ELSE IF c6.panicked THEN c6
        ELSE IF c7.panicked \/ ~c7.res.ok THEN c7
        ELSE IF c8.panicked THEN c8
        ELSE IF c9.panicked THEN c9
        ELSE IF c11.panicked THEN c11
        ELSE IF c15.panicked THEN c15
        ELSE [c15 EXCEPT !.scope_type = old_scope_type]

Compiler_function_declaration_c14(c, c1, is_main, c6, c7, c8, c9, c11, c13, c14) ==
    LET index == c1.res.index
    IN  Compiler_function_declaration_c15(c,
                                          c1,
                                          c6,
                                          c7,
                                          c8,
                                          c9,
                                          c11,
                                          IF is_main THEN c13
                                          ELSE Compiler_define_object(
                                                   Compiler_write_op_code(c14, Op1("Constant", c14.res.index)),
                                                   index))

Compiler_function_declaration_c13(c, c1, func_name, is_main, c6, c7, c8, c9, c11, c13) ==
    LET starting_index == Chunk_get_size(c9.main_chunk) - 1
    IN  Compiler_function_declaration_c14(c,
                                          c1,
                                          is_main,
                                          c6,
                                          c7,
                                          c8,
                                          c9,
                                          c11,
                                          c13,
                                          Compiler_constants_write(c13, FunctionV(func_name, starting_index)))

\* function_declaration with the jump patched before the trailing Stop or
\* Nil and Return are written
Compiler_function_declaration_c11_patches_early(c, c1, func_name, is_main, c6, c7, c8, c9, c11) ==
    LET jump == JumpLocation(c6)
        c12 == Compiler_patch_jump(c11, jump)
    IN  Compiler_function_declaration_c13(c,
                                          c1,
                                          func_name,
                                          is_main,
                                          c6,
                                          c7,
                                          c8,
                                          c9,
                                          c11,
                                          IF is_main
                                          THEN Compiler_write_op_code(c12, Op("Stop"))
                                          ELSE Compiler_write_op_code(
                                                   Compiler_write_op_code(c12, Op("Nil")),
                                                   Op("Return")))
Compiler_function_declaration_c11(c, c1, func_name, is_main, c6, c7, c8, c9, c11) ==
    LET jump == JumpLocation(c6)
        c12 == IF is_main THEN Compiler_write_op_code(c11, Op("Stop"))
               ELSE Compiler_write_op_code(
                        Compiler_write_op_code(c11, Op("Nil")), Op("Return"))
    IN  Compiler_function_declaration_c13(c,
                                          c1,
                                          func_name,
                                          is_main,
                                          c6,
                                          c7,
                                          c8,
                                          c9,
                                          c11,
                                          Compiler_patch_jump(c12, jump))

Compiler_function_declaration_c9(c, c1, func_name, is_main, c6, c7, c8, return_type, c9) ==
    LET param_types == c7.param_types
        c10 == IF is_main
               THEN [c9 EXCEPT !.main_start = Chunk_get_size(c9.main_chunk)]
               ELSE Compiler_patch_function(c9, func_name,
                                            FunctionT(param_types, return_type))
    IN  Compiler_function_declaration_c11(c,
                                          c1,
                                          func_name,
                                          is_main,
                                          c6,
                                          c7,
                                          c8,
                                          c9,
                                          Compiler_end_scope(Compiler_block(c10, return_type)))

Compiler_function_declaration_return_type(c, c1, func_name, is_main, c6, c7, c8, return_type) ==
    Compiler_function_declaration_c9(c,
                                     c1,
                                     func_name,
                                     is_main,
                                     c6,
                                     c7,
                                     c8,
                                     return_type,
                                     Compiler_write_op_code(
                                        Compiler_consume_current(
                                            [c8 EXCEPT !.function_return_type = return_type],
                                            "LeftBrace", "'{' to define function body"),
                                        Op("Start")))

Compiler_function_declaration_c8(c, c1, func_name, is_main, c6, c7, c8) ==
    Compiler_function_declaration_return_type(c,
                                              c1,
                                              func_name,
                                              is_main,
                                              c6,
                                              c7,
                                              c8,
                                              IF is_main THEN IntT
                                              ELSE IF c8.res.ok THEN c8.ty ELSE NilT)

Compiler_function_declaration_c7(c, c1, func_name, is_main, c6, c7) ==
    Compiler_function_declaration_c8(c,
                                     c1,
                                     func_name,
                                     is_main,
                                     c6,
                                     c7,
                                     IF is_main THEN c7 ELSE Compiler_get_return_type(c7))

Compiler_function_declaration_c6(c, c1, func_name, is_main, c6) ==
    Compiler_function_declaration_c7(c,
                                     c1,
                                     func_name,
                                     is_main,
                                     c6,
                                     IF is_main
                                     THEN [Compiler_consume_current(c6, "RightParenthesis", "closing ')'")
                                              EXCEPT !.param_types = <<>>, !.res.ok = TRUE]
                                     ELSE IF CurType(c6) = "RightParenthesis"
                                     THEN [Compiler_advance(c6) EXCEPT !.param_types = <<>>,
                                                                       !.res.ok = TRUE]
                                     ELSE ParametersLoop(c6, <<>>))

Compiler_function_declaration_c4(c, c1, func_name, is_main, c4) ==
    LET c5 == IF is_main THEN c4 ELSE Compiler_initialize_object(c4, func_name)
    IN  Compiler_function_declaration_c6(c,
                                         c1,
                                         func_name,
                                         is_main,
                                         Compiler_emit_jump(Compiler_begin_scope(c5), "Jump"))

Compiler_function_declaration_c2(c, c1, func_name, is_main, c2) ==
    LET c3 == IF is_main
              THEN [(IF c2.found_main
                     THEN Compiler_compile_error(c2, "more than 1 main function")
                     ELSE c2) EXCEPT !.found_main = TRUE]
              ELSE c2
    IN  Compiler_function_declaration_c4(c,
                                         c1,
                                         func_name,
                                         is_main,
                                         [c3 EXCEPT !.scope_type = "Function"])

Compiler_function_declaration_is_main(c, c1, func_name, is_main) ==
    Compiler_function_declaration_c2(c,
                                     c1,
                                     func_name,
                                     is_main,
                                     Compiler_consume_current(c1, "LeftParenthesis",
                                                              "'(' after function name"))

Compiler_function_declaration_func_name(c, c1, func_name) ==
    Compiler_function_declaration_is_main(c,
                                          c1,
                                          func_name,
                                          func_name = n_main)

Compiler_function_declaration_c1(c, c1) ==
    Compiler_function_declaration_func_name(c, c1, c1.res.name)

Compiler_function_declaration(c) ==
    Compiler_function_declaration_c1(c,
                                     Compiler_parse_variable(c, "function name"))

(***************************************************************************)
(* Compiler: class declarations.  A class is its name and its fields in    *)
(* declaration order; any member that is not a typed field is todo!().     *)
(***************************************************************************)
Compiler_define_class_field_c1(class_data, field_type, c1) ==
    [c |-> Compiler_consume_current(c1, "Semicolon",
                                    "';' at the end of field declaration"),
     data |-> [class_data EXCEPT !.fields =
                  Append(@, [name |-> c1.previous_token.lexeme,
                             ty |-> field_type])]]

Compiler_define_class_field(c, class_data, field_type) ==
    IF CurType(c) # "Identifier"
    THEN [c |-> Compiler_compile_error(c, "expected field name"),
          data |-> class_data]
    ELSE Compiler_define_class_field_c1(class_data,
                                        field_type,
                                        Compiler_advance(c))

RECURSIVE Compiler_class_block_loop(_, _)
Compiler_class_block_loop_r(c, class_data, r) ==
    IF c.panicked THEN [c |-> c, data |-> class_data]
    ELSE IF CurType(c) = "RightBrace"
    THEN [c |-> Compiler_advance(c), data |-> class_data]
    ELSE IF CurType(c) = "Eof"
    THEN [c |-> Compiler_compile_error(Compiler_advance(c),
                                       "expected closing '}'"),
          data |-> class_data]
    ELSE IF CurType(c) = "Var"
    THEN Compiler_class_block_loop(
            Compiler_compile_error(Compiler_advance(c), "'var' field"),
            class_data)
    ELSE IF CurType(c) \in {"BoolType", "IntType", "FloatType", "StringType"}
            \/ ClassEntry(c, c.current_token.lexeme).some
    THEN Compiler_class_block_loop(r.c, r.data)
    ELSE [c |-> Abort(c), data |-> class_data]

Compiler_class_block_loop(c, class_data) ==
    LET field_type == CASE CurType(c) = "BoolType" -> BoolT
                        [] CurType(c) = "IntType" -> IntT
                        [] CurType(c) = "FloatType" -> FloatT
                        [] CurType(c) = "StringType" -> StringT
                        [] OTHER ->
                              LET e == c.classes[ClassEntry(c, c.current_token.lexeme).v]
                              IN  ClassT(e.name, [n \in 1..Len(e.fields) |-> e.fields[n].ty])
    IN  Compiler_class_block_loop_r(c,
                                    class_data,
                                    Compiler_define_class_field(Compiler_advance(c), class_data,
                                                                field_type))

Compiler_class_block(c, class_data) ==
    Compiler_class_block_loop(
        Compiler_consume_current(c, "LeftBrace", "'{' before class body"),
        class_data)

Compiler_class_declaration_c7(c, c1, name, c2, r, c3, c7) ==
    LET old_scope_type == c.scope_type
    IN  IF c.panicked THEN c
        ELSE IF c1.panicked \/ ~c1.res.ok THEN c1
        ELSE IF c2.panicked THEN c2
        ELSE IF r.c.panicked THEN r.c
        ELSE IF c3.panicked THEN c3
        ELSE IF (c3.scope_depth > 0 /\ c3.locals = <<>>)
                \/ (c3.scope_depth = 0 /\ ~GlobalEntry(c3, name).some)
        THEN Abort(c3)
        ELSE IF c7.panicked THEN c7
        ELSE [c7 EXCEPT !.scope_type = old_scope_type]

Compiler_class_declaration_c6(c, c1, name, c2, r, c3, c6) ==
    LET index == c1.res.index
    IN  Compiler_class_declaration_c7(c,
                                      c1,
                                      name,
                                      c2,
                                      r,
                                      c3,
                                      Compiler_define_object(
                                         Compiler_write_op_code(c6, Op1("Constant", c6.res.index)), index))

Compiler_class_declaration_c4(c, c1, name, c2, r, c3, c4) ==
    LET c5 == [c4 EXCEPT !.classes =
                  IF ClassEntry(c4, name).some
                  THEN [@ EXCEPT ![ClassEntry(c4, name).v] = r.data]
                  ELSE Append(@, r.data)]
    IN  Compiler_class_declaration_c6(c,
                                      c1,
                                      name,
                                      c2,
                                      r,
                                      c3,
                                      Compiler_constants_write(c5, Val("Class", 0, name, <<>>)))

Compiler_class_declaration_entry(c, c1, name, c2, r, c3, class_type, entry) ==
    Compiler_class_declaration_c4(c,
                                  c1,
                                  name,
                                  c2,
                                  r,
                                  c3,
                                  IF c3.scope_depth > 0
                                  THEN [c3 EXCEPT !.locals[entry].ty = Some(class_type)]
                                  ELSE [c3 EXCEPT !.globals[entry].ty = Some(class_type)])

Compiler_class_declaration_class_type(c, c1, name, c2, r, c3, class_type) ==
    Compiler_class_declaration_entry(c,
                                     c1,
                                     name,
                                     c2,
                                     r,
                                     c3,
                                     class_type,
                                     IF c3.scope_depth > 0 THEN Len(c3.locals)
                                     ELSE GlobalEntry(c3, name).v)

Compiler_class_declaration_c3(c, c1, name, c2, r, c3) ==
    Compiler_class_declaration_class_type(c,
                                          c1,
                                          name,
                                          c2,
                                          r,
                                          c3,
                                          ClassT(name, [n \in 1..Len(r.data.fields) |->
                                                            r.data.fields[n].ty]))

Compiler_class_declaration_r(c, c1, name, c2, r) ==
    LET jump == JumpLocation(c2)
    IN  Compiler_class_declaration_c3(c,
                                      c1,
                                      name,
                                      c2,
                                      r,
                                      Compiler_patch_jump(r.c, jump))

Compiler_class_declaration_c2(c, c1, name, c2) ==
    Compiler_class_declaration_r(c,
                                 c1,
                                 name,
                                 c2,
                                 Compiler_class_block([c2 EXCEPT !.scope_type = "Class"],
                                                      [name |-> name, fields |-> <<>>]))

Compiler_class_declaration_name(c, c1, name) ==
    Compiler_class_declaration_c2(c,
                                  c1,
                                  name,
                                  Compiler_emit_jump(Compiler_initialize_object(c1, name), "Jump"))

Compiler_class_declaration_c1(c, c1) ==
    Compiler_class_declaration_name(c, c1, c1.res.name)

Compiler_class_declaration(c) ==
    Compiler_class_declaration_c1(c,
                                  Compiler_parse_variable(c, "class name"))

(***************************************************************************)
(* Compiler: declarations and compile.                                     *)
(***************************************************************************)
Compiler_declaration_statement_c2(c, c2) ==
    IF c.panicked THEN c
    ELSE IF c2.panicked THEN c2
    ELSE IF c2.panic_mode THEN Compiler_synchronize(c2)
    ELSE c2

Compiler_declaration_statement_c1(c, expected_return_type, c1) ==
    Compiler_declaration_statement_c2(c,
                                      CASE CurType(c) = "Semicolon" -> Compiler_compile_warning(c1)
                                        [] CurType(c) = "Func" ->
                                              IF CurType(c1) = "LeftParenthesis"
                                              THEN Compiler_function_var_declaration(Compiler_advance(c1))
                                              ELSE IF c1.scope_type = "Global"
                                              THEN Compiler_function_declaration(c1)
                                              ELSE IF c1.scope_type = "Class" THEN Abort(c1)
                                              ELSE Compiler_compile_error(c1, "function in local scope")
                                        [] CurType(c) # "Func" /\ CurType(c) # "Semicolon"
                                             /\ StartsVarDeclaration(c) -> Compiler_try_var_declaration(c)
                                        [] CurType(c) = "Return" /\ ~StartsVarDeclaration(c) ->
                                              IF c1.scope_type # "Function"
                                              THEN Compiler_compile_error(c1, "return outside a function")
                                              ELSE IF ~expected_return_type.some THEN Abort(c1)
                                              ELSE Compiler_return_statement(c1)
                                        [] CurType(c) = "Class" /\ ~StartsVarDeclaration(c) ->
                                              IF c1.scope_type = "Global"
                                              THEN Compiler_class_declaration(c1)
                                              ELSE Compiler_compile_error(c1, "class in local scope")
                                        [] OTHER ->
                                              IF c.scope_type = "Function" THEN Compiler_statement(c)
                                              ELSE Compiler_compile_error(c, "statement outside a function"))

Compiler_declaration_statement(c, expected_return_type) ==
    Compiler_declaration_statement_c1(c,
                                      expected_return_type,
                                      Compiler_advance(c))

RECURSIVE CompileLoop(_)
CompileLoop(c) ==
    IF c.panicked THEN c
    ELSE IF CurType(c) = "Eof" THEN Compiler_advance(c)
    ELSE CompileLoop(Compiler_declaration_statement(c, None))

\* compile with a final JumpTo that names main's Start
Compiler_compile_c_jumps_to_start(c) ==
    IF c.panicked THEN c
    ELSE [c EXCEPT !.main_chunk = Chunk_write(@, Op1("JumpTo", c.main_start - 1), 0)]
Compiler_compile_c(c) ==
    IF c.panicked THEN c
    ELSE [c EXCEPT !.main_chunk = Chunk_write(@, Op1("JumpTo", c.main_start), 0)]

\* compile up to the status: the state of the compiler when it returns
Compiler_compile(toks) ==
    Compiler_compile_c(CompileLoop(Compiler_advance(Compiler_new(toks))))

CompileStatus_ignores_main(c) ==
    IF c.had_error THEN [status |-> "Fail", global_count |-> 0]
    ELSE [status |-> "Success", global_count |-> Len(c.globals)]

\* The CompileStatus compile returns
CompileStatus(c) ==
    IF ~c.found_main \/ c.had_error THEN [status |-> "Fail", global_count |-> 0]
    ELSE [status |-> "Success", global_count |-> Len(c.globals)]

(***************************************************************************)
(* SquatValue at run time: Display, the arithmetic traits, PartialOrd.     *)
(***************************************************************************)
TypeV(t) == Val("Type", 0, <<>>, <<t>>)
ClassV(name) == Val("Class", 0, name, <<>>)
InstanceV(instance_of, properties) == Val("Instance", 0, instance_of, properties)
FloatNaN == Val("Float", 0, <<"N", "a", "N">>, <<>>)

DigitChar(d) == <<"0", "1", "2", "3", "4", "5", "6", "7", "8", "9">>[d + 1]

RECURSIVE NatToChars(_)
NatToChars(n) ==
    IF n < 10 THEN <<DigitChar(n)>>
    ELSE Append(NatToChars(n \div 10), DigitChar(n % 10))

\* i64::to_string
IntToChars(n) == IF n < 0 THEN <<"-">> \o NatToChars(0 - n) ELSE NatToChars(n)

\* f64::to_string of a value held in tenths: 2.0 prints as 2, 1.5 as 1.5
TenthsToChars(n) ==
    LET m == IF n < 0 THEN 0 - n ELSE n
        sign == IF n < 0 THEN <<"-">> ELSE <<>>
    IN  IF m % 10 = 0 THEN sign \o NatToChars(m \div 10)
        ELSE sign \o NatToChars(m \div 10) \o <<".", DigitChar(m % 10)>>

\* SquatType::to_string, the type's variant for the structured ones
SquatType_to_string(t) ==
    <<"<", "t", "y", "p", "e", " ">> \o <<t.k>> \o <<">">>

\* SquatValue::to_string through Display
SquatValue_to_string(v) ==
    CASE v.t = "Nil" -> <<"N", "i", "l">>
      [] v.t = "Int" -> IntToChars(v.i)
      [] v.t = "Float" -> IF IsNaN(v) THEN v.s ELSE TenthsToChars(v.i)
      [] v.t = "Bool" -> IF v.i = 1 THEN <<"t", "r", "u", "e">>
                         ELSE <<"f", "a", "l", "s", "e">>
      [] v.t = "String" -> v.s
      [] v.t = "Function" -> <<"<", "f", "u", "n", "c", " ">> \o v.s \o <<">">>
      [] v.t = "NativeFunction" ->
            <<"<", "n", "a", "t", "i", "v", "e", " ", "f", "u", "n", "c", " ">>
                \o v.s \o <<">">>
      [] v.t = "Class" -> <<"<", "c", "l", "a", "s", "s", " ">> \o v.s \o <<">">>
      [] v.t = "Instance" ->
            <<"<", "i", "n", "s", "t", "a", "n", "c", "e", " ", "o", "f", " ">>
                \o v.s \o <<">">>
      [] v.t = "Type" -> SquatType_to_string(v.p[1])

\* SquatObject::get_type gives the variant with default data
SquatValue_get_type(v) ==
    CASE v.t \in {"Nil", "Int", "Float", "String", "Bool", "Type"} -> Ty(v.t)
      [] v.t \in {"Function", "NativeFunction"} ->
            [k |-> v.t, params |-> <<>>, ret |-> <<NilT>>, name |-> <<>>]
      [] OTHER -> Ty(v.t)

IsNumber(v) == v.t \in {"Int", "Float"}

\* `i as f64`, in tenths
AsTenths(v) == IF v.t = "Int" THEN v.i * 10 ELSE v.i

\* Rust's integer / and % truncate towards zero
TruncDiv(x, y) ==
    LET q == (IF x < 0 THEN 0 - x ELSE x) \div (IF y < 0 THEN 0 - y ELSE y)
    IN  IF (x < 0) # (y < 0) THEN 0 - q ELSE q

TruncRem(x, y) == x - y * TruncDiv(x, y)

\* The arithmetic traits: an Option, None where the match arm is
\* unreachable!() or the integer division panics.  Float products and
\* quotients are rounded to tenths.
SquatValue_add_string_first(l, r) ==
    CASE l.t = "Int" /\ r.t = "Int" -> Some(IntV(l.i + r.i))
      [] IsNumber(l) /\ IsNumber(r) ->
            Some(IF IsNaN(l) \/ IsNaN(r) THEN FloatNaN
                 ELSE FloatV(AsTenths(l) + AsTenths(r)))
      [] l.t = "String" /\ r.t = "String" -> Some(StringV(l.s \o r.s))
      [] l.t = "String" -> Some(StringV(l.s \o SquatValue_to_string(r)))
      [] r.t = "String" -> Some(StringV(r.s \o SquatValue_to_string(l)))
      [] OTHER -> None

\* impl Add
SquatValue_add(l, r) ==
    CASE l.t = "Int" /\ r.t = "Int" -> Some(IntV(l.i + r.i))
      [] IsNumber(l) /\ IsNumber(r) ->
            Some(IF IsNaN(l) \/ IsNaN(r) THEN FloatNaN
                 ELSE FloatV(AsTenths(l) + AsTenths(r)))
      [] l.t = "String" /\ r.t = "String" -> Some(StringV(l.s \o r.s))
      [] l.t = "String" -> Some(StringV(l.s \o SquatValue_to_string(r)))
      [] r.t = "String" -> Some(StringV(SquatValue_to_string(l) \o r.s))
      [] OTHER -> None

SquatValue_sub(l, r) ==
    CASE l.t = "Int" /\ r.t = "Int" -> Some(IntV(l.i - r.i))
      [] IsNumber(l) /\ IsNumber(r) ->
            Some(IF IsNaN(l) \/ IsNaN(r) THEN FloatNaN
                 ELSE FloatV(AsTenths(l) - AsTenths(r)))
      [] OTHER -> None

SquatValue_mul(l, r) ==
    CASE l.t = "Int" /\ r.t = "Int" -> Some(IntV(l.i * r.i))
      [] IsNumber(l) /\ IsNumber(r) ->
            Some(IF IsNaN(l) \/ IsNaN(r) THEN FloatNaN
                 ELSE FloatV(TruncDiv(AsTenths(l) * AsTenths(r), 10)))
      [] OTHER -> None

SquatValue_div(l, r) ==
    CASE l.t = "Int" /\ r.t = "Int" ->
            IF r.i = 0 THEN None ELSE Some(IntV(TruncDiv(l.i, r.i)))
      [] IsNumber(l) /\ IsNumber(r) ->
            Some(IF IsNaN(l) \/ IsNaN(r) \/ AsTenths(r) = 0 THEN FloatNaN
                 ELSE FloatV(TruncDiv(AsTenths(l) * 10, AsTenths(r))))
      [] OTHER -> None

SquatValue_rem(l, r) ==
    CASE l.t = "Int" /\ r.t = "Int" ->
            IF r.i = 0 THEN None ELSE Some(IntV(TruncRem(l.i, r.i)))
      [] IsNumber(l) /\ IsNumber(r) ->
            Some(IF IsNaN(l) \/ IsNaN(r) \/ AsTenths(r) = 0 THEN FloatNaN
                 ELSE FloatV(TruncRem(AsTenths(l), AsTenths(r))))
      [] OTHER -> None

BinaryOp(op, l, r) ==
    CASE op = "Add" -> SquatValue_add(l, r)
      [] op = "Subtract" -> SquatValue_sub(l, r)
      [] op = "Multiply" -> SquatValue_mul(l, r)
      [] op = "Divide" -> SquatValue_div(l, r)
      [] op = "Mod" -> SquatValue_rem(l, r)

\* The order of the characters the programs use
Alphabet ==
    <<"0", "1", "2", "3", "4", "5", "6", "7", "8", "9", "_",
      "a", "b", "c", "d", "e", "f", "g", "h", "i", "j", "k", "l", "m",
      "n", "o", "p", "q", "r", "s", "t", "u", "v", "w", "x", "y", "z">>

CharRank(ch) ==
    IF \E n \in 1..Len(Alphabet) : Alphabet[n] = ch
    THEN CHOOSE n \in 1..Len(Alphabet) : Alphabet[n] = ch
    ELSE 0

\* str::cmp: "Less", "Equal" or "Greater"
RECURSIVE StrCmp(_, _)
StrCmp(x, y) ==
    IF x = <<>> /\ y = <<>> THEN "Equal"
    ELSE IF x = <<>> THEN "Less"
    ELSE IF y = <<>> THEN "Greater"
    ELSE IF CharRank(Head(x)) < CharRank(Head(y)) THEN "Less"
    ELSE IF CharRank(Head(x)) > CharRank(Head(y)) THEN "Greater"
    ELSE StrCmp(Tail(x), Tail(y))

IntCmp(x, y) == IF x < y THEN "Less" ELSE IF x > y THEN "Greater" ELSE "Equal"

\* impl PartialOrd for SquatValue: "None" where the values do not compare
SquatValue_partial_cmp(l, r) ==
    CASE l.t = "Nil" /\ r.t = "Nil" -> "Equal"
      [] l.t = "Int" /\ r.t = "Int" -> IntCmp(l.i, r.i)
      [] l.t = "Float" /\ r.t = "Float" ->
            IF IsNaN(l) \/ IsNaN(r) THEN "None" ELSE IntCmp(l.i, r.i)
      [] l.t = "String" /\ r.t = "String" -> StrCmp(l.s, r.s)
      [] OTHER -> "None"

BinaryCmp(op, l, r) ==
    CASE op = "Equal" -> SquatValue_derived_eq(l, r)
      [] op = "NotEqual" -> ~SquatValue_derived_eq(l, r)
      [] op = "Greater" -> SquatValue_partial_cmp(l, r) = "Greater"
      [] op = "GreaterEqual" ->
            SquatValue_partial_cmp(l, r) \in {"Greater", "Equal"}
      [] op = "Less" -> SquatValue_partial_cmp(l, r) = "Less"
      [] op = "LessEqual" -> SquatValue_partial_cmp(l, r) \in {"Less", "Equal"}

(***************************************************************************)
(* The native functions.  A call yields a set of outcomes [ok, value,      *)
(* exit]: what is read from stdin, and an f64 the model does not compute,  *)
(* are a choice.                                                           *)
(***************************************************************************)
NativeOk(value) == [ok |-> TRUE, value |-> value, exit |-> FALSE]
NativeErr == [ok |-> FALSE, value |-> NilV, exit |-> FALSE]
NativeExit(code) == [ok |-> TRUE, value |-> IntV(code), exit |-> TRUE]

InputLines == {<<>>, <<"1">>}
FloatResults == {FloatV(0), FloatV(15)}

IsDigits(chars) ==
    /\ chars # <<>>
    /\ \A n \in 1..Len(chars) :
          chars[n] \in {"0", "1", "2", "3", "4", "5", "6", "7", "8", "9"}

\* str::parse::<i64>: an optional sign and digits
ParsesAsInt(chars) ==
    \/ IsDigits(chars)
    \/ Len(chars) > 1 /\ chars[1] \in {"-", "+"} /\ IsDigits(Tail(chars))

ParsedInt(chars) ==
    IF chars[1] = "-" THEN 0 - ParseDigits(Tail(chars), 0)
    ELSE IF chars[1] = "+" THEN ParseDigits(Tail(chars), 0)
    ELSE ParseDigits(chars, 0)

\* str::parse::<f64> for the forms the programs use: digits, digits '.' digit
ParsesAsFloat(chars) ==
    \/ IsDigits(chars)
    \/ /\ Contains(chars, ".")
       /\ IsDigits(SubSeq(chars, 1, DotAt(chars) - 1))
       /\ Len(chars) = DotAt(chars) + 1
       /\ IsDigits(<<chars[Len(chars)]>>)

ParsedTenths(chars) ==
    IF Contains(chars, ".") THEN ParseTenths(chars) ELSE ParseDigits(chars, 0) * 10

native_number_root(args) ==
    IF IsNumber(args[1]) THEN {NativeOk(r) : r \in FloatResults} ELSE {NativeErr}

native_number_pow(args) ==
    IF IsNumber(args[1]) /\ IsNumber(args[2])
    THEN {NativeOk(r) : r \in FloatResults} ELSE {NativeErr}

native_number_to_int(args) ==
    LET x == args[1] IN
    CASE x.t = "String" ->
            IF ParsesAsInt(x.s) THEN {NativeOk(IntV(ParsedInt(x.s)))} ELSE {NativeErr}
      [] x.t = "Float" -> {NativeOk(IntV(IF IsNaN(x) THEN 0 ELSE TruncDiv(x.i, 10)))}
      [] x.t = "Bool" -> {NativeOk(IntV(x.i))}
      [] x.t = "Int" -> {NativeOk(x)}
      [] OTHER -> {NativeErr}

native_number_to_float(args) ==
    LET x == args[1] IN
    CASE x.t = "String" ->
            IF ParsesAsFloat(x.s) THEN {NativeOk(FloatV(ParsedTenths(x.s)))}
            ELSE {NativeErr}
      [] x.t = "Int" -> {NativeOk(FloatV(x.i * 10))}
      [] x.t = "Bool" -> {NativeOk(FloatV(x.i * 10))}
      [] x.t = "Float" -> {NativeOk(x)}
      [] OTHER -> {NativeErr}

native_misc_exit(args) ==
    IF args[1].t = "Int" THEN {NativeExit(args[1].i)} ELSE {NativeExit(0 - 1)}

native_string_to_str(args) == {NativeOk(StringV(SquatValue_to_string(args[1])))}

\* Every native but time and input indexes args[0] or args[1]
NativeIndexPanics(name, args) ==
    \/ name \in {n_cbrt, n_sqrt, n_to_int, n_to_float, n_exit, n_type, n_to_str}
          /\ Len(args) < 1
    \/ name = n_pow /\ Len(args) < 2

SquatNativeFunction_call(name, args) ==
    CASE name = n_input -> {NativeOk(StringV(l)) : l \in InputLines}
      [] name \in {n_print, n_println} -> {NativeOk(NilV)}
      [] name \in {n_cbrt, n_sqrt} -> native_number_root(args)
      [] name = n_pow -> native_number_pow(args)
      [] name = n_to_int -> native_number_to_int(args)
      [] name = n_to_float -> native_number_to_float(args)
      [] name = n_exit -> native_misc_exit(args)
      [] name = n_time -> {NativeOk(r) : r \in FloatResults}
      [] name = n_type -> {NativeOk(TypeV(SquatValue_get_type(args[1])))}
      [] name = n_to_str -> native_string_to_str(args)

\* What print and println write: the arguments' to_string joined by " "
RECURSIVE JoinArgs(_)
JoinArgs(args) ==
    IF args = <<>> THEN <<>>
    ELSE IF Len(args) = 1 THEN SquatValue_to_string(args[1])
    ELSE SquatValue_to_string(args[1]) \o <<" ">> \o JoinArgs(Tail(args))

Printed(name, args) ==
    CASE name = n_print -> <<JoinArgs(args)>>
      [] name = n_println -> <<Append(JoinArgs(args), "\n")>>
      [] OTHER -> <<>>

(***************************************************************************)
(* VM: what one pass of the loop of interpret_chunk does to the machine m  *)
(* for the instruction op it fetched; m.ip is current_instruction after    *)
(* next() advanced it.  frame, taken and operands record what the          *)
(* instruction consumed: the CallFrame a Return popped, whether a jump was *)
(* taken, the operands of a binary operation.                              *)
(***************************************************************************)
InterpretOk(i) == [kind |-> "InterpretOk", code |-> i]
InterpretCompileError == [kind |-> "InterpretCompileError", code |-> 0]
InterpretRuntimeError == [kind |-> "InterpretRuntimeError", code |-> 0]
ProcessExit(i) == [kind |-> "ProcessExit", code |-> i]
NoResult == [kind |-> "None", code |-> 0]

CallFrame_new(stack_index, return_address, func_name) ==
    [stack_index |-> stack_index, return_address |-> return_address,
     func_name |-> func_name]

VM_panic(m) == [m EXCEPT !.panicked = TRUE]
VM_runtime_error(m) == [m EXCEPT !.had_error = TRUE]
VM_push(m, value) == [m EXCEPT !.stack = Append(@, value)]

Last(seq) == seq[Len(seq)]
ButLast(seq) == SubSeq(seq, 1, Len(seq) - 1)

\* Vec<Option<SquatValue>>::get(index) is Some(Some(value))
GlobalDefined(m, index) == index < Len(m.globals) /\ m.globals[index + 1].some

\* Constant, False, Nil, True, GetNative
VM_load(m, op, constants) ==
    CASE op.op = "Constant" ->
            IF op.a >= Len(constants) THEN VM_panic(m)
            ELSE VM_push(m, constants[op.a + 1])
      [] op.op = "False" -> VM_push(m, BoolV(FALSE))
      [] op.op = "Nil" -> VM_push(m, NilV)
      [] op.op = "True" -> VM_push(m, BoolV(TRUE))
      [] op.op = "GetNative" ->
            IF op.a >= Len(Natives) THEN VM_panic(m)
            ELSE VM_push(m, NativeFunctionV(Natives[op.a + 1].name))

\* binary_op
VM_binary_op(m, op) ==
    IF Len(m.stack) < 2 THEN VM_panic(m)
    ELSE LET right == Last(m.stack)
             left == Last(ButLast(m.stack))
             value == BinaryOp(op.op, left, right)
             m1 == [m EXCEPT !.stack = ButLast(ButLast(@)),
                             !.operands = <<left, right>>]
         IN  IF value.some THEN VM_push(m1, value.v) ELSE VM_panic(m1)

\* binary_cmp
VM_binary_cmp(m, op) ==
    IF Len(m.stack) < 2 THEN VM_panic(m)
    ELSE LET right == Last(m.stack)
             left == Last(ButLast(m.stack))
         IN  VM_push([m EXCEPT !.stack = ButLast(ButLast(@)),
                               !.operands = <<left, right>>],
                     BoolV(BinaryCmp(op.op, left, right)))

\* Not, Negate
VM_unary(m, op) ==
    IF m.stack = <<>> THEN VM_panic(m)
    ELSE LET value == Last(m.stack)
             m1 == [m EXCEPT !.stack = ButLast(@)]
         IN  CASE op.op = "Not" -> VM_push(m1, BoolV(~SquatValue_is_truthy(value)))
               [] op.op = "Negate" /\ value.t = "Float" ->
                     VM_push(m1, IF IsNaN(value) THEN value ELSE FloatV(0 - value.i))
               [] op.op = "Negate" /\ value.t = "Int" ->
                     VM_push(m1, IntV(0 - value.i))
               [] OTHER -> VM_panic(m1)

\* Pop: Vec::pop of an empty stack is None and ignored
VM_pop(m) == IF m.stack = <<>> THEN m ELSE [m EXCEPT !.stack = ButLast(@)]

VM_global_set_defines(m, op) ==
    CASE op.op = "DefineGlobal" ->
            IF m.stack = <<>> \/ op.a >= Len(m.globals) THEN VM_panic(m)
            ELSE [m EXCEPT !.globals[op.a + 1] = Some(Last(m.stack)),
                           !.stack = ButLast(@)]
      [] op.op = "GetGlobal" ->
            IF GlobalDefined(m, op.a) THEN VM_push(m, m.globals[op.a + 1].v)
            ELSE VM_runtime_error(m)
      [] op.op = "SetGlobal" ->
            IF m.stack = <<>> THEN VM_panic(m)
            ELSE IF op.a < Len(m.globals)
            THEN [m EXCEPT !.globals[op.a + 1] = Some(Last(m.stack))]
            ELSE VM_runtime_error(m)

\* DefineGlobal, GetGlobal, SetGlobal
VM_global(m, op) ==
    CASE op.op = "DefineGlobal" ->
            IF m.stack = <<>> \/ op.a >= Len(m.globals) THEN VM_panic(m)
            ELSE [m EXCEPT !.globals[op.a + 1] = Some(Last(m.stack)),
                           !.stack = ButLast(@)]
      [] op.op = "GetGlobal" ->
            IF GlobalDefined(m, op.a) THEN VM_push(m, m.globals[op.a + 1].v)
            ELSE VM_runtime_error(m)
      [] op.op = "SetGlobal" ->
            IF m.stack = <<>> THEN VM_panic(m)
            ELSE IF GlobalDefined(m, op.a)
            THEN [m EXCEPT !.globals[op.a + 1] = Some(Last(m.stack))]
            ELSE VM_runtime_error(m)

\* GetLocal, SetLocal
VM_local(m, op) ==
    LET index == op.a + Last(m.call_stack).stack_index IN
    CASE op.op = "GetLocal" ->
            IF m.call_stack = <<>> THEN VM_panic(m)
            ELSE IF index >= Len(m.stack) THEN VM_panic(m)
            ELSE VM_push(m, m.stack[index + 1])
      [] op.op = "SetLocal" ->
            IF m.stack = <<>> \/ m.call_stack = <<>> THEN VM_panic(m)
            ELSE IF index >= Len(m.stack) THEN VM_panic(m)
            ELSE [m EXCEPT !.stack[index + 1] = Last(m.stack)]

\* VM_jump with a JumpIfTrue that never jumps
VM_jump_if_true_falls_through(m, op) ==
    CASE op.op \in {"JumpTo", "Loop"} -> [m EXCEPT !.ip = op.a, !.taken = TRUE]
      [] op.op = "Jump" -> [m EXCEPT !.ip = @ + op.a, !.taken = TRUE]
      [] op.op = "JumpIfFalse" ->
            IF m.stack = <<>> THEN VM_panic(m)
            ELSE IF ~SquatValue_is_truthy(Last(m.stack))
            THEN [m EXCEPT !.ip = @ + op.a, !.taken = TRUE]
            ELSE m
      [] op.op = "JumpIfTrue" ->
            IF m.stack = <<>> THEN VM_panic(m) ELSE m
\* JumpTo, JumpIfFalse, Jump, JumpIfTrue, Loop
VM_jump(m, op) ==
    CASE op.op \in {"JumpTo", "Loop"} -> [m EXCEPT !.ip = op.a, !.taken = TRUE]
      [] op.op = "Jump" -> [m EXCEPT !.ip = @ + op.a, !.taken = TRUE]
      [] op.op = "JumpIfFalse" ->
            IF m.stack = <<>> THEN VM_panic(m)
            ELSE IF ~SquatValue_is_truthy(Last(m.stack))
            THEN [m EXCEPT !.ip = @ + op.a, !.taken = TRUE]
            ELSE m
      [] op.op = "JumpIfTrue" ->
            IF m.stack = <<>> THEN VM_panic(m)
            ELSE IF SquatValue_is_truthy(Last(m.stack))
            THEN [m EXCEPT !.ip = @ + op.a, !.taken = TRUE]
            ELSE m

\* SquatInstance::get_property unwraps properties.get(index)
VM_get_property(m, instance, property_index) ==
    IF property_index >= Len(instance.p) THEN VM_panic(m)
    ELSE VM_push(m, instance.p[property_index + 1])

\* The property instructions, Index and CreateInstance.  The VM's
\* SquatObject::Struct is the compiler's SquatObject::Class.  The message of
\* Index out of range holds `value.len() - 1`, a usize: on an empty string
\* the subtraction aborts in a build with overflow checks and wraps in one
\* without.
\* VM_object with a SetLocalProperty that takes its index from the bottom of
\* the stack
VM_object_set_local_property_from_bottom(m, op, overflow_checks) ==
    LET frame_base == Last(m.call_stack).stack_index
        top == Last(m.stack)
    IN
    CASE op.op = "GetGlobalProperty" ->
            IF GlobalDefined(m, op.a) /\ m.globals[op.a + 1].v.t = "Instance"
            THEN VM_get_property(m, m.globals[op.a + 1].v, op.b)
            ELSE VM_panic(m)
      [] op.op = "GetLocalProperty" ->
            IF m.call_stack = <<>> THEN VM_panic(m)
            ELSE IF op.a + frame_base < Len(m.stack)
                    /\ m.stack[op.a + frame_base + 1].t = "Instance"
            THEN VM_get_property(m, m.stack[op.a + frame_base + 1], op.b)
            ELSE VM_panic(m)
      [] op.op = "GetProperty" ->
            IF m.stack # <<>> /\ top.t = "Instance"
            THEN VM_get_property([m EXCEPT !.stack = ButLast(@)], top, op.a)
            ELSE VM_panic(m)
      [] op.op = "SetGlobalProperty" ->
            IF /\ GlobalDefined(m, op.a)
               /\ m.globals[op.a + 1].v.t = "Instance"
               /\ m.stack # <<>>
               /\ op.b < Len(m.globals[op.a + 1].v.p)
            THEN [m EXCEPT !.globals[op.a + 1].v.p[op.b + 1] = top]
            ELSE VM_panic(m)
      [] op.op = "SetLocalProperty" ->
            IF m.call_stack = <<>> \/ m.stack = <<>> THEN VM_panic(m)
            ELSE IF /\ op.a + frame_base < Len(m.stack)
                    /\ m.stack[op.a + frame_base + 1].t = "Instance"
                    /\ op.b < Len(m.stack[op.a + frame_base + 1].p)
            THEN [m EXCEPT !.stack[op.a + 1].p[op.b + 1] = top]
            ELSE VM_panic(m)
      [] op.op = "Index" ->
            IF Len(m.stack) < 2 \/ top.t # "Int" THEN VM_panic(m)
            ELSE LET indexed_value == Last(ButLast(m.stack))
                     m1 == [m EXCEPT !.stack = ButLast(ButLast(@))]
                 IN  IF indexed_value.t # "String" THEN VM_panic(m1)
                     ELSE IF Len(indexed_value.s) <= top.i
                     THEN IF Len(indexed_value.s) = 0 /\ overflow_checks
                          THEN VM_panic(m1)
                          ELSE VM_runtime_error(m1)
                     ELSE IF top.i < 0
                     THEN VM_runtime_error(m1)
                     ELSE VM_push(m1, StringV(<<indexed_value.s[top.i + 1]>>))
      [] op.op = "CreateInstance" ->
            IF Len(m.stack) < 1 + op.a THEN VM_panic(m)
            ELSE LET class_data == m.stack[Len(m.stack) - op.a]
                     args == SubSeq(m.stack, Len(m.stack) - op.a + 1, Len(m.stack))
                 IN  IF class_data.t # "Class" THEN VM_panic(m)
                     ELSE VM_push(
                            [m EXCEPT !.stack = SubSeq(@, 1, Len(@) - op.a - 1)],
                            InstanceV(class_data.s, args))
\* The property instructions, Index and CreateInstance
VM_object(m, op, overflow_checks) ==
    LET frame_base == Last(m.call_stack).stack_index
        top == Last(m.stack)
    IN
    CASE op.op = "GetGlobalProperty" ->
            IF GlobalDefined(m, op.a) /\ m.globals[op.a + 1].v.t = "Instance"
            THEN VM_get_property(m, m.globals[op.a + 1].v, op.b)
            ELSE VM_panic(m)
      [] op.op = "GetLocalProperty" ->
            IF m.call_stack = <<>> THEN VM_panic(m)
            ELSE IF op.a + frame_base < Len(m.stack)
                    /\ m.stack[op.a + frame_base + 1].t = "Instance"
            THEN VM_get_property(m, m.stack[op.a + frame_base + 1], op.b)
            ELSE VM_panic(m)
      [] op.op = "GetProperty" ->
            IF m.stack # <<>> /\ top.t = "Instance"
            THEN VM_get_property([m EXCEPT !.stack = ButLast(@)], top, op.a)
            ELSE VM_panic(m)
      [] op.op = "SetGlobalProperty" ->
            IF /\ GlobalDefined(m, op.a)
               /\ m.globals[op.a + 1].v.t = "Instance"
               /\ m.stack # <<>>
               /\ op.b < Len(m.globals[op.a + 1].v.p)
            THEN [m EXCEPT !.globals[op.a + 1].v.p[op.b + 1] = top]
            ELSE VM_panic(m)
      [] op.op = "SetLocalProperty" ->
            IF m.call_stack = <<>> \/ m.stack = <<>> THEN VM_panic(m)
            ELSE IF /\ op.a + frame_base < Len(m.stack)
                    /\ m.stack[op.a + frame_base + 1].t = "Instance"
                    /\ op.b < Len(m.stack[op.a + frame_base + 1].p)
            THEN [m EXCEPT !.stack[op.a + frame_base + 1].p[op.b + 1] = top]
            ELSE VM_panic(m)
      [] op.op = "Index" ->
            IF Len(m.stack) < 2 \/ top.t # "Int" THEN VM_panic(m)
            ELSE LET indexed_value == Last(ButLast(m.stack))
                     m1 == [m EXCEPT !.stack = ButLast(ButLast(@))]
                 IN  IF indexed_value.t # "String" THEN VM_panic(m1)
                     ELSE IF Len(indexed_value.s) <= top.i
                     THEN IF Len(indexed_value.s) = 0 /\ overflow_checks
                          THEN VM_panic(m1)
                          ELSE VM_runtime_error(m1)
                     ELSE IF top.i < 0
                     THEN VM_runtime_error(m1)
                     ELSE VM_push(m1, StringV(<<indexed_value.s[top.i + 1]>>))
      [] op.op = "CreateInstance" ->
            IF Len(m.stack) < 1 + op.a THEN VM_panic(m)
            ELSE LET class_data == m.stack[Len(m.stack) - op.a]
                     args == SubSeq(m.stack, Len(m.stack) - op.a + 1, Len(m.stack))
                 IN  IF class_data.t # "Class" THEN VM_panic(m)
                     ELSE VM_push(
                            [m EXCEPT !.stack = SubSeq(@, 1, Len(@) - op.a - 1)],
                            InstanceV(class_data.s, args))

VM_call_function_frame_at_function(m, arg_count, func_data) ==
    [m EXCEPT !.call_stack = Append(@, CallFrame_new(Len(m.stack) - arg_count - 1,
                                                     m.ip, func_data.s)),
              !.ip = func_data.i]

\* Call of a SquatFunction: a new CallFrame over the arguments
VM_call_function(m, arg_count, func_data) ==
    [m EXCEPT !.call_stack = Append(@, CallFrame_new(Len(m.stack) - arg_count,
                                                     m.ip, func_data.s)),
              !.ip = func_data.i]

VM_call_native_keeps_function(m, arg_count, native, r) ==
    LET args == SubSeq(m.stack, Len(m.stack) - arg_count + 1, Len(m.stack))
        m1 == [m EXCEPT !.stack = SubSeq(@, 1, Len(@) - arg_count),
                        !.output = @ \o Printed(native.s, args)]
    IN  IF NativeIndexPanics(native.s, args) THEN VM_panic(m1)
        ELSE IF r.exit THEN [m1 EXCEPT !.result = ProcessExit(r.value.i)]
        ELSE IF r.ok THEN VM_push(m1, r.value)
        ELSE VM_runtime_error(m1)

\* Call of a native with the outcome r of its body
VM_call_native(m, arg_count, native, r) ==
    LET args == SubSeq(m.stack, Len(m.stack) - arg_count + 1, Len(m.stack))
        m1 == [m EXCEPT !.stack = SubSeq(@, 1, Len(@) - arg_count - 1),
                        !.output = @ \o Printed(native.s, args)]
    IN  IF NativeIndexPanics(native.s, args) THEN VM_panic(m1)
        ELSE IF r.exit THEN [m1 EXCEPT !.result = ProcessExit(r.value.i)]
        ELSE IF r.ok THEN VM_push(m1, r.value)
        ELSE VM_runtime_error(m1)

\* The outcomes of the native at the function slot, {NativeErr} otherwise
NativeOutcomes(m, arg_count) ==
    IF Len(m.stack) < 1 + arg_count THEN {NativeErr}
    ELSE LET callee == m.stack[Len(m.stack) - arg_count]
             args == SubSeq(m.stack, Len(m.stack) - arg_count + 1, Len(m.stack))
         IN  IF callee.t = "NativeFunction" /\ ~NativeIndexPanics(callee.s, args)
             THEN SquatNativeFunction_call(callee.s, args)
             ELSE {NativeErr}

VM_call(m, op, r) ==
    IF Len(m.stack) < 1 + op.a THEN VM_panic(m)
    ELSE LET callee == m.stack[Len(m.stack) - op.a] IN
         CASE callee.t = "Function" -> VM_call_function(m, op.a, callee)
           [] callee.t = "NativeFunction" -> VM_call_native(m, op.a, callee, r)
           [] OTHER -> VM_panic(m)

\* The stack Return leaves when it pops a frame: the frame's locals go, then
\* the slot under them, then the return value is pushed.
ReturnStack_keeps_slot(slots, call_frame, return_val) ==
    LET rest == IF call_frame.stack_index < Len(slots)
                THEN SubSeq(slots, 1, call_frame.stack_index)
                ELSE slots
    IN  Append(rest, return_val)

ReturnStack(slots, call_frame, return_val) ==
    LET rest == IF call_frame.stack_index < Len(slots)
                THEN SubSeq(slots, 1, call_frame.stack_index)
                ELSE slots
    IN  Append(IF rest = <<>> THEN rest ELSE ButLast(rest), return_val)

VM_return_keeps_frame(m) ==
    IF m.stack = <<>> THEN VM_panic(m)
    ELSE LET return_val == Last(m.stack)
             m1 == [m EXCEPT !.stack = ButLast(@), !.operands = <<return_val>>]
         IN  IF m.call_stack # <<>>
             THEN LET call_frame == Last(m.call_stack) IN
                  [m1 EXCEPT !.stack = ReturnStack(m1.stack, call_frame, return_val),
                             !.ip = call_frame.return_address,
                             !.frame = Some(call_frame)]
             ELSE [m1 EXCEPT !.result = IF return_val.t = "Int"
                                        THEN InterpretOk(return_val.i)
                                        ELSE InterpretOk(0)]

VM_return(m) ==
    IF m.stack = <<>> THEN VM_panic(m)
    ELSE LET return_val == Last(m.stack)
             m1 == [m EXCEPT !.stack = ButLast(@), !.operands = <<return_val>>]
         IN  IF m.call_stack # <<>>
             THEN LET call_frame == Last(m.call_stack) IN
                  [m1 EXCEPT !.call_stack = ButLast(@),
                             !.stack = ReturnStack(m1.stack, call_frame, return_val),
                             !.ip = call_frame.return_address,
                             !.frame = Some(call_frame)]
             ELSE [m1 EXCEPT !.result = IF return_val.t = "Int"
                                        THEN InterpretOk(return_val.i)
                                        ELSE InterpretOk(0)]

VM_stop(m) == [m EXCEPT !.result = InterpretOk(0)]

(***************************************************************************)
(* Inputs of the chunk and pool operations.                                *)
(***************************************************************************)
ChunkOps == {Op("Pop"), Op1("Jump", 0)}
JumpOffsets == {1}
LineNumbers == 1..MaxLine

a_ == <<"a">>
f_ == <<"f">>

PoolValues ==
    {NilV, NumberV(1), NumberV(2), NumberNaN, StringV(a_), BoolV(TRUE),
     FunctionV(f_, 3)}

(***************************************************************************)
(* The programs: token streams as the lexer hands them over, one source    *)
(* line per fragment.                                                      *)
(***************************************************************************)

id_P == W("Identifier", <<"P">>)
id_a == W("Identifier", <<"a">>)
id_b == W("Identifier", <<"b">>)
id_c == W("Identifier", <<"c">>)
id_d == W("Identifier", <<"d">>)
id_e == W("Identifier", <<"e">>)
id_i == W("Identifier", <<"i">>)
id_id == W("Identifier", <<"i", "d">>)
id_main == W("Identifier", <<"m", "a", "i", "n">>)
id_g == W("Identifier", <<"g">>)
id_p == W("Identifier", <<"p">>)
id_print == W("Identifier", <<"p", "r", "i", "n", "t">>)
id_println == W("Identifier", <<"p", "r", "i", "n", "t", "l", "n">>)
id_q == W("Identifier", <<"q">>)
id_r == W("Identifier", <<"r">>)
id_t == W("Identifier", <<"t">>)
id_to_int == W("Identifier", <<"t", "o", "_", "i", "n", "t">>)
id_two == W("Identifier", <<"t", "w", "o">>)
id_x == W("Identifier", <<"x">>)
kw_and == W("And", <<"a", "n", "d">>)
kw_bool == W("BoolType", <<"b", "o", "o", "l">>)
kw_class == W("Class", <<"c", "l", "a", "s", "s">>)
kw_else == W("Else", <<"e", "l", "s", "e">>)
kw_false == W("False", <<"f", "a", "l", "s", "e">>)
kw_for == W("For", <<"f", "o", "r">>)
kw_func == W("Func", <<"f", "u", "n", "c">>)
kw_if == W("If", <<"i", "f">>)
kw_int == W("IntType", <<"i", "n", "t">>)
kw_or == W("Or", <<"o", "r">>)
kw_return == W("Return", <<"r", "e", "t", "u", "r", "n">>)
kw_true == W("True", <<"t", "r", "u", "e">>)
kw_var == W("Var", <<"v", "a", "r">>)
kw_while == W("While", <<"w", "h", "i", "l", "e">>)
num_0 == W("Number", <<"0">>)
num_1 == W("Number", <<"1">>)
num_2 == W("Number", <<"2">>)
num_3 == W("Number", <<"3">>)
num_7 == W("Number", <<"7">>)
p_bang == W("Bang", <<"!">>)
p_bang_equal == W("BangEqual", <<"!", "=">>)
p_colon == W("Colon", <<":">>)
p_comma == W("Comma", <<",">>)
p_dot == W("Dot", <<".">>)
p_equal == W("Equal", <<"=">>)
p_equal_equal == W("EqualEqual", <<"=", "=">>)
p_greater == W("Greater", <<">">>)
p_greater_equal == W("GreaterEqual", <<">", "=">>)
p_lb == W("LeftBrace", <<"{">>)
p_less == W("Less", <<"<">>)
p_less_equal == W("LessEqual", <<"<", "=">>)
p_lp == W("LeftParenthesis", <<"(">>)
p_minus == W("Minus", <<"-">>)
p_plus == W("Plus", <<"+">>)
p_question == W("Question", <<"?">>)
p_rb == W("RightBrace", <<"}">>)
p_rp == W("RightParenthesis", <<")">>)
p_semi == W("Semicolon", <<";">>)
p_slash == W("Slash", <<"/">>)
p_star == W("Star", <<"*">>)
str_a == W("String", <<"a">>)
str_x == W("String", <<"x">>)

\* int x = 1;
G_x ==
    <<kw_int, id_x, p_equal, num_1, p_semi>>

\* func two() int { return 2; }
F_two ==
    <<kw_func, id_two, p_lp, p_rp, kw_int, p_lb, kw_return, num_2, p_semi,
      p_rb>>

\* func id(int a) int { int b = a; return b; }
F_id ==
    <<kw_func, id_id, p_lp, kw_int, id_a, p_rp, kw_int, p_lb, kw_int, id_b,
      p_equal, id_a, p_semi, kw_return, id_b, p_semi, p_rb>>

\* class P { int a; }
C_P ==
    <<kw_class, id_P, p_lb, kw_int, id_a, p_semi, p_rb>>

\* func main() {
M_open ==
    <<kw_func, id_main, p_lp, p_rp, p_lb>>

\* }
M_close ==
    <<p_rb>>

\* int a = 2;
S_int_a ==
    <<kw_int, id_a, p_equal, num_2, p_semi>>

\* int x = 3;
S_int_x ==
    <<kw_int, id_x, p_equal, num_3, p_semi>>

\* P p = P(1);
S_instance ==
    <<id_P, id_p, p_equal, id_P, p_lp, num_1, p_rp, p_semi>>

\* { var x = x; }
S_self_reference ==
    <<p_lb, kw_var, id_x, p_equal, id_x, p_semi, p_rb>>

\* { int b = 1; int c = b + 1; }
S_block ==
    <<p_lb, kw_int, id_b, p_equal, num_1, p_semi, kw_int, id_c, p_equal,
      id_b, p_plus, num_1, p_semi, p_rb>>

\* if (1 < 2) { int d = 1; } else print(0);
S_if ==
    <<kw_if, p_lp, num_1, p_less, num_2, p_rp, p_lb, kw_int, id_d, p_equal,
      num_1, p_semi, p_rb, kw_else, id_print, p_lp, num_0, p_rp, p_semi>>

\* while (x < 2) x = x + 1;
S_while ==
    <<kw_while, p_lp, id_x, p_less, num_2, p_rp, id_x, p_equal, id_x, p_plus,
      num_1, p_semi>>

\* for (int i = 0; i < 2; i = i + 1) { int e = i; }
S_for ==
    <<kw_for, p_lp, kw_int, id_i, p_equal, num_0, p_semi, id_i, p_less,
      num_2, p_semi, id_i, p_equal, id_i, p_plus, num_1, p_rp, p_lb, kw_int,
      id_e, p_equal, id_i, p_semi, p_rb>>

\* var t = true + true;
S_add_bools ==
    <<kw_var, id_t, p_equal, kw_true, p_plus, kw_true, p_semi>>

\* var q = true and false ? 1 : 2;
S_ternary ==
    <<kw_var, id_q, p_equal, kw_true, kw_and, kw_false, p_question, num_1,
      p_colon, num_2, p_semi>>

\* var r = false or !true;
S_or ==
    <<kw_var, id_r, p_equal, kw_false, kw_or, p_bang, kw_true, p_semi>>

\* to_int("x");
S_to_int ==
    <<id_to_int, p_lp, str_x, p_rp, p_semi>>

\* print(p.a);
S_property ==
    <<id_print, p_lp, id_p, p_dot, id_a, p_rp, p_semi>>

\* return 1 == 2;
S_return_bool ==
    <<kw_return, num_1, p_equal_equal, num_2, p_semi>>

\* return id(a);
S_return_call ==
    <<kw_return, id_id, p_lp, id_a, p_rp, p_semi>>

\* return id(two());
S_return_nested ==
    <<kw_return, id_id, p_lp, id_two, p_lp, p_rp, p_rp, p_semi>>

\* return 7;
S_return_7 ==
    <<kw_return, num_7, p_semi>>

\* id();
S_call_few ==
    <<id_id, p_lp, p_rp, p_semi>>

\* two(1);
S_call_many ==
    <<id_two, p_lp, num_1, p_rp, p_semi>>

\* id(1, 2);
S_call_many2 ==
    <<id_id, p_lp, num_1, p_comma, num_2, p_rp, p_semi>>

\* id(true);
S_call_type ==
    <<id_id, p_lp, kw_true, p_rp, p_semi>>

\* print(1, 2);
S_print_many ==
    <<id_print, p_lp, num_1, p_comma, num_2, p_rp, p_semi>>

\* var t = true < false;
S_less_bool ==
    <<kw_var, id_t, p_equal, kw_true, p_less, kw_false, p_semi>>

\* var q = 1 / 0;
S_div_zero ==
    <<kw_var, id_q, p_equal, num_1, p_slash, num_0, p_semi>>

\* { int a = 3; }
S_shadow ==
    <<p_lb, kw_int, id_a, p_equal, num_3, p_semi, p_rb>>

\* { int b = 1; int b = 2; }
S_dup_local ==
    <<p_lb, kw_int, id_b, p_equal, num_1, p_semi, kw_int, id_b, p_equal,
      num_2, p_semi, p_rb>>

\* ;
S_stray ==
    <<p_semi>>

\* What the lexer returns for a character it does not know: an error
S_lexer_error ==
    <<W("LexError", <<"#">>)>>

\* int c = ;
S_no_initializer ==
    <<kw_int, id_c, p_equal, p_semi>>

Prelude == <<G_x, F_two, F_id, C_P>>

MainStatements ==
    <<S_int_a, S_int_x, S_instance, S_self_reference,
      S_block, S_if, S_while, S_for,
      S_add_bools, S_ternary, S_or, S_to_int,
      S_property, S_return_bool, S_return_call, S_return_nested,
      S_return_7>>

\* The statements of a main body: at most MaxBody of MainStatements, in
\* their order there.
Bodies ==
    UNION {{b \in [1..n -> 1..Len(MainStatements)] :
               \A i \in 1..n, j \in 1..n : i < j => b[i] < b[j]} : n \in 0..MaxBody}

MainCounts == {0, 1, 2}

RECURSIVE Lines(_, _)
Lines(fragments, line) ==
    IF fragments = <<>> THEN <<>>
    ELSE [n \in 1..Len(Head(fragments)) |->
             Tok(Head(fragments)[n].type, Head(fragments)[n].lexeme, line)]
         \o Lines(Tail(fragments), line + 1)

Main(body) ==
    <<M_open>> \o [n \in 1..Len(body) |-> MainStatements[body[n]]] \o <<M_close>>

Program(with_prelude, body, main_count) ==
    Lines((IF with_prelude THEN Prelude ELSE <<>>)
          \o (IF main_count >= 1 THEN Main(body) ELSE <<>>)
          \o (IF main_count >= 2 THEN Main(<<>>) ELSE <<>>), 1)

\* More programs, each a sequence of fragments: mains of the statements above
\* after the prelude, and a global declared twice
\* P g = P(1);
G_g ==
    <<id_P, id_g, p_equal, id_P, p_lp, num_1, p_rp, p_semi>>

\* print(g.a);
S_property_g ==
    <<id_print, p_lp, id_g, p_dot, id_a, p_rp, p_semi>>

\* for (int i = 2; i < 2; i = i + 1) print(i);
S_for_never ==
    <<kw_for, p_lp, kw_int, id_i, p_equal, num_2, p_semi, id_i, p_less,
      num_2, p_semi, id_i, p_equal, id_i, p_plus, num_1, p_rp, id_print, p_lp,
      id_i, p_rp, p_semi>>

\* for (print(7); x < 2; x = x + 1) print(x);
S_for_global ==
    <<kw_for, p_lp, id_print, p_lp, num_7, p_rp, p_semi, id_x, p_less, num_2,
      p_semi, id_x, p_equal, id_x, p_plus, num_1, p_rp, id_print, p_lp, id_x,
      p_rp, p_semi>>

\* The for statements with an initializer, a condition and a step: how many
\* instructions the initializer takes and how many locals it declares
ForLoops ==
    {[statement |-> S_for, init |-> 1, locals |-> 1],
     [statement |-> S_for_never, init |-> 1, locals |-> 1],
     [statement |-> S_for_global, init |-> 4, locals |-> 0]}

\* int x = 1; func main() { for ... }
ForProgram(loop) == Lines(<<G_x, M_open, loop.statement, M_close>>, 1)

MoreMains ==
    << <<S_call_few>>, <<S_call_many>>, <<S_call_many2>>, <<S_call_type>>,
       <<S_print_many>>, <<S_less_bool>>, <<S_div_zero>>,
       <<S_int_a, S_shadow>>, <<S_dup_local>>, <<S_int_a, S_int_a>>,
       <<S_stray, S_return_7>>, <<S_lexer_error, S_return_7>>,
       <<S_no_initializer, S_int_a, S_return_7>> >>

\* var x = x;
G_self_reference ==
    <<kw_var, id_x, p_equal, id_x, p_semi>>

\* func two() int { x = x + 1; return x; }
F_bump ==
    <<kw_func, id_two, p_lp, p_rp, kw_int, p_lb, id_x, p_equal, id_x, p_plus,
      num_1, p_semi, kw_return, id_x, p_semi, p_rb>>

\* int g = two();
G_g_call ==
    <<kw_int, id_g, p_equal, id_two, p_lp, p_rp, p_semi>>

\* int g = x;
G_g_x ==
    <<kw_int, id_g, p_equal, id_x, p_semi>>

\* print(g);
S_print_g ==
    <<id_print, p_lp, id_g, p_rp, p_semi>>

\* x = g;
S_set_x ==
    <<id_x, p_equal, id_g, p_semi>>

\* main;
S_main ==
    <<id_main, p_semi>>

\* Programs whose functions and initialisers use globals: a function that
\* changes a global and is called by an initialiser, a function ahead of the
\* global it names, a global that names itself, a global behind main, a
\* main that names main
GlobalUsePrograms ==
    {Lines(<<G_x, F_bump, G_g_call, M_open, S_print_g, S_set_x, M_close>>, 1),
     Lines(<<F_bump, G_x, M_open, M_close>>, 1),
     Lines(<<G_self_reference, M_open, M_close>>, 1),
     Lines(<<G_x, M_open, S_while, M_close, G_g_x>>, 1),
     Lines(<<M_open, S_main, M_close>>, 1)}

\* class P { int a;
C_open ==
    <<kw_class, id_P, p_lb, kw_int, id_a, p_semi>>

\* class P { print; }
C_member ==
    <<kw_class, id_P, p_lb, id_print, p_semi, p_rb>>

\* A class body that the source ends in, and one with a member that is not
\* a field
ClassPrograms ==
    {Lines(<<M_open, M_close, C_open>>, 1),
     Lines(<<C_member, M_open, M_close>>, 1)}

MorePrograms ==
    {Lines(Prelude \o <<M_open>> \o MoreMains[n] \o <<M_close>>, 1) :
        n \in 1..Len(MoreMains)}
    \cup GlobalUsePrograms \cup ClassPrograms
    \cup {Lines(<<G_x, G_x, M_open, M_close>>, 1),
          Lines(<<S_stray, G_x, S_stray, M_open, M_close>>, 1),
          Lines(<<S_lexer_error, M_open, M_close>>, 1),
          Lines(<<S_stray, G_x>>, 1),
          Lines(<<G_x, C_P, G_g, M_open, S_property_g, M_close>>, 1)}
    \cup {ForProgram(loop) : loop \in ForLoops}

Programs ==
    {Program(with_prelude, body, main_count) :
        with_prelude \in BOOLEAN, body \in Bodies, main_count \in MainCounts}
    \cup MorePrograms

(***************************************************************************)
(* Expressions: one statement in a main that has the locals a and p, after *)
(* the prelude.                                                            *)
(***************************************************************************)
BinaryOperators ==
    {p_plus, p_minus, p_star, p_slash, p_equal_equal, p_bang_equal,
     p_greater, p_greater_equal, p_less, p_less_equal}
UnaryOperators == {p_bang, p_minus}

E_one == <<num_1>>
E_seven == <<num_7>>
E_true == <<kw_true>>
E_string == <<str_x>>
\* x, the global
E_global == <<id_x>>
\* a, the local
E_local == <<id_a>>
\* two()
E_call == <<id_two, p_lp, p_rp>>
\* p.a
E_property == <<id_p, p_dot, id_a>>
\* (1 + 2)
E_grouping == <<p_lp, num_1, p_plus, num_2, p_rp>>
\* -2
E_negate == <<p_minus, num_2>>
\* (true or false)
E_or == <<p_lp, kw_true, kw_or, kw_false, p_rp>>
\* to_int("x")
E_to_int == <<id_to_int, p_lp, str_x, p_rp>>

LeftOperands ==
    {E_one, E_true, E_string, E_global, E_call, E_grouping, E_or}
RightOperands ==
    {E_one, E_seven, E_true, E_string, E_local, E_property, E_negate}

ExpressionStatement(e) == e \o <<p_semi>>
BinaryExpression(l, op, r) == l \o <<op>> \o r
UnaryExpression(op, e) == <<op>> \o e

\* int x = 1; func two() ... class P { int a; }
\* func main() { int a = 2; P p = P(1); statement }
ExpressionProgram(statement) ==
    Lines(Prelude \o <<M_open, S_int_a, S_instance, statement, M_close>>, 1)

BinaryPrograms ==
    {ExpressionProgram(ExpressionStatement(BinaryExpression(l, op, r))) :
        l \in LeftOperands, op \in BinaryOperators, r \in RightOperands}
UnaryPrograms ==
    {ExpressionProgram(ExpressionStatement(UnaryExpression(op, e))) :
        op \in UnaryOperators, e \in LeftOperands \cup RightOperands}

OperandPrograms ==
    {ExpressionProgram(ExpressionStatement(e)) :
        e \in LeftOperands \cup RightOperands \cup {E_to_int}}

\* false
E_false == <<kw_false>>
LogicalOperators == {kw_and, kw_or}
LogicalLeft == {E_one, E_true, E_false, E_or, E_call}
LogicalRight == {E_seven, E_true, E_false, E_call, E_string}
LogicalProgram(l, op, r) ==
    ExpressionProgram(ExpressionStatement(BinaryExpression(l, op, r)))
LogicalPrograms ==
    {LogicalProgram(l, op, r) :
        l \in LogicalLeft, op \in LogicalOperators, r \in LogicalRight}

\* c ? a : d
TernaryExpression(c, a, d) == c \o <<p_question>> \o a \o <<p_colon>> \o d
TernaryProgram(c, a, d) ==
    ExpressionProgram(ExpressionStatement(TernaryExpression(c, a, d)))
\* c1 ? a : c2 ? b : d
NestedTernaryProgram(c1, a, c2, b, d) ==
    TernaryProgram(c1, a, TernaryExpression(c2, b, d))
Conditions == {E_true, E_false}
\* The branches a, b and d: of Int, or of Bool as the conditions are
Branches ==
    {[a |-> E_one, b |-> E_seven, d |-> E_call],
     [a |-> E_call, b |-> E_one, d |-> E_seven],
     [a |-> E_false, b |-> E_true, d |-> E_or]}
TernaryPrograms ==
    {TernaryProgram(c, br.a, br.d) : c \in Conditions, br \in Branches}
NestedTernaryPrograms ==
    {NestedTernaryProgram(c1, br.a, c2, br.b, br.d) :
        c1 \in Conditions, c2 \in Conditions, br \in Branches}

\* type b = e;
Declaration(type, e) == <<type, id_b, p_equal>> \o e \o <<p_semi>>
\* println(e);
PrintlnStatement(e) == <<id_println, p_lp>> \o e \o <<p_rp, p_semi>>
\* "a" + 1
E_string_plus_int == <<str_a, p_plus, num_1>>
\* l op r with operands of one type, and "a" + 1
TypedExpressions ==
    {BinaryExpression(E_one, op, <<num_2>>) : op \in BinaryOperators}
    \cup {BinaryExpression(E_true, op, E_false) :
              op \in {p_equal_equal, p_bang_equal, kw_and, kw_or}}
    \cup {BinaryExpression(E_string, p_plus, <<str_a>>), E_string_plus_int}
TypeKeywords == {kw_bool, kw_int, kw_var}
TypedPrograms ==
    {ExpressionProgram(Declaration(type, e)) :
        type \in TypeKeywords, e \in TypedExpressions}
    \cup {ExpressionProgram(PrintlnStatement(e)) : e \in TypedExpressions}

\* The type of a declaration: var, int, float, string, bool, the class P,
\* func () and func (int) int
kw_float == W("FloatType", <<"f", "l", "o", "a", "t">>)
kw_string == W("StringType", <<"s", "t", "r", "i", "n", "g">>)
DeclaredTypes ==
    {<<kw_var>>, <<kw_int>>, <<kw_float>>, <<kw_string>>, <<kw_bool>>, <<id_P>>,
     <<kw_func, p_lp, p_rp>>, <<kw_func, p_lp, kw_int, p_rp, kw_int>>}
\* type c;
Uninitialized(type) == type \o <<id_c, p_semi>>
UninitializedPrograms ==
    {ExpressionProgram(Uninitialized(type)) : type \in DeclaredTypes}

ExpressionPrograms ==
    BinaryPrograms \cup UnaryPrograms \cup OperandPrograms
    \cup LogicalPrograms \cup TernaryPrograms \cup NestedTernaryPrograms
    \cup TypedPrograms \cup UninitializedPrograms

(***************************************************************************)
(* The chunk on its own: write, set_jump_at, next, clear_instructions.     *)
(***************************************************************************)
\* The variables of the pipeline, and their values where no program runs
pipeline ==
    <<source, pc, compiler, stack, call_stack, globals, had_error, result,
      output, executed, main_return, entered, calls, lexer, scanned,
      compared>>

NoCompiler ==
    [status |-> "None", global_count |-> 0, code |-> <<>>, patches |-> <<>>,
     scopes |-> <<>>, errors |-> <<>>, found_main |-> FALSE, globals |-> <<>>,
     constants |-> <<>>, main_start |-> 0]
NothingExecuted ==
    [ip |-> 0, op |-> NoOp, frame |-> None, taken |-> FALSE, operands |-> <<>>,
     size |-> 0, frames |-> 0]
NoMainReturn == [returned |-> FALSE, value |-> NilV, resumed |-> FALSE]
LexerIdle == lexer = Lexer_new(<<>>) /\ scanned = <<>>
NothingCompared == [left |-> NilT, right |-> NilT, equal |-> None]
TypesIdle == compared = NothingCompared

InterpreterIdle ==
    /\ source = <<>>
    /\ pc = "done"
    /\ compiler = NoCompiler
    /\ stack = <<>>
    /\ call_stack = <<>>
    /\ globals = <<>>
    /\ had_error = FALSE
    /\ result = NoResult
    /\ output = <<>>
    /\ executed = NothingExecuted
    /\ main_return = NoMainReturn
    /\ entered = <<>>
    /\ calls = <<>>

PipelineIdle == InterpreterIdle /\ LexerIdle /\ TypesIdle

PoolIdle == pool = <<>> /\ writes = <<>>
ChunkIdle ==
    /\ chunk = Chunk_new
    /\ written = <<>>
    /\ cleared = FALSE
    /\ last_next = None

InitChunk ==
    /\ ChunkIdle
    /\ PoolIdle
    /\ PipelineIdle
    /\ panicked = FALSE

Write ==
    /\ ~panicked
    /\ Len(written) < MaxWrites
    /\ \E op_code \in ChunkOps, line \in LineNumbers :
          /\ chunk' = Chunk_write(chunk, op_code, line)
          /\ written' = Append(written, line)
    /\ UNCHANGED <<cleared, last_next, pool, writes, panicked>>
    /\ UNCHANGED pipeline

SetJumpAt ==
    /\ ~panicked
    /\ \E location \in 0..MaxWrites, offset \in JumpOffsets :
          IF Chunk_set_jump_at_panics(chunk, location)
          THEN panicked' = TRUE /\ chunk' = chunk
          ELSE panicked' = FALSE
               /\ chunk' = Chunk_set_jump_at(chunk, location, offset)
    /\ UNCHANGED <<written, cleared, last_next, pool, writes>>
    /\ UNCHANGED pipeline

Next_ ==
    /\ ~panicked
    /\ chunk' = Chunk_next(chunk).chunk
    /\ last_next' = Chunk_next(chunk).op
    /\ UNCHANGED <<written, cleared, pool, writes, panicked>>
    /\ UNCHANGED pipeline

ClearInstructions ==
    /\ ~panicked
    /\ chunk' = Chunk_clear_instructions(chunk)
    /\ cleared' = TRUE
    /\ UNCHANGED <<written, last_next, pool, writes, panicked>>
    /\ UNCHANGED pipeline

NextChunk == Write \/ SetJumpAt \/ Next_ \/ ClearInstructions

SpecChunk == InitChunk /\ [][NextChunk]_vars

(***************************************************************************)
(* The constant pool on its own: a sequence of writes.                     *)
(***************************************************************************)
InitPool ==
    /\ PipelineIdle
    /\ ChunkIdle
    /\ PoolIdle
    /\ panicked = FALSE

PoolWrite ==
    /\ Len(writes) < MaxPoolWrites
    /\ \E value \in PoolValues :
          LET r == ValueArray_write(pool, value, "value") IN
          /\ pool' = r.values
          /\ writes' = Append(writes, [value |-> value, index |-> r.index,
                                       grew |-> Len(r.values) > Len(pool)])
    /\ UNCHANGED <<chunk, written, cleared, last_next, panicked>>
    /\ UNCHANGED pipeline

NextPool == PoolWrite

SpecPool == InitPool /\ [][NextPool]_vars

(***************************************************************************)
(* The pipeline: VM::interpret_source on one program.  InterpretSource is  *)
(* interpret_source up to the first pass of the loop of interpret_chunk;   *)
(* every further action is one pass of that loop, and the pass that        *)
(* returns also runs the clear_instructions that follows the return.       *)
(***************************************************************************)
Init ==
    /\ source \in Programs
    /\ pc = "source"
    /\ compiler = NoCompiler
    /\ stack = <<>>
    /\ call_stack = <<>>
    /\ globals = <<None>>
    /\ had_error = FALSE
    /\ result = NoResult
    /\ output = <<>>
    /\ executed = NothingExecuted
    /\ main_return = NoMainReturn
    /\ entered = <<>>
    /\ calls = <<>>
    /\ LexerIdle
    /\ TypesIdle
    /\ ChunkIdle
    /\ PoolIdle
    /\ panicked = FALSE

\* Chunk::get_main_start
Chunk_get_main_start(c) == Last(c.code).a - 1

\* What the pipeline keeps of the compiler once compile has returned
CompilerSummary(c) ==
    [status |-> IF c.panicked THEN "Panicked" ELSE CompileStatus(c).status,
     global_count |-> Len(c.globals), code |-> c.main_chunk.code,
     patches |-> c.patches, scopes |-> c.scopes, errors |-> c.errors,
     found_main |-> c.found_main, globals |-> c.globals,
     constants |-> c.constants, main_start |-> c.main_start]

ScopeEntered(sizes, scopes, ip, frames, size) ==
    [n \in 1..Len(sizes) |->
        IF scopes[n].kind \in {"block", "for"} /\ scopes[n].begin_ip = ip
        THEN Some([frames |-> frames, size |-> size])
        ELSE sizes[n]]

Compiled_pushes_frame_on_fail(c) ==
    /\ compiler' = CompilerSummary(c)
    /\ panicked' = c.panicked
    /\ pool' = c.constants
    /\ IF c.panicked
       THEN /\ pc' = "done"
            /\ chunk' = c.main_chunk
            /\ UNCHANGED <<globals, call_stack, result, entered>>
       ELSE IF CompileStatus(c).status = "Success"
       THEN /\ pc' = "run"
            /\ chunk' = [c.main_chunk EXCEPT !.current_instruction = 0]
            /\ globals' = [n \in 1..CompileStatus(c).global_count |-> None]
            /\ call_stack' =
                 <<CallFrame_new(0, Chunk_get_main_start(c.main_chunk), n_main)>>
            /\ entered' = ScopeEntered([n \in 1..Len(c.scopes) |-> None],
                                       c.scopes, 0, 1, 0)
            /\ UNCHANGED result
       ELSE /\ pc' = "done"
            /\ chunk' = Chunk_clear_instructions(c.main_chunk)
            /\ result' = InterpretCompileError
            /\ call_stack' = <<CallFrame_new(0, 0, n_main)>>
            /\ UNCHANGED <<globals, entered>>

\* interpret_source once compile has returned c
Compiled(c) ==
    /\ compiler' = CompilerSummary(c)
    /\ panicked' = c.panicked
    /\ pool' = c.constants
    /\ IF c.panicked
       THEN /\ pc' = "done"
            /\ chunk' = c.main_chunk
            /\ UNCHANGED <<globals, call_stack, result, entered>>
       ELSE IF CompileStatus(c).status = "Success"
       THEN /\ pc' = "run"
            /\ chunk' = [c.main_chunk EXCEPT !.current_instruction = 0]
            /\ globals' = [n \in 1..CompileStatus(c).global_count |-> None]
            /\ call_stack' =
                 <<CallFrame_new(0, Chunk_get_main_start(c.main_chunk), n_main)>>
            /\ entered' = ScopeEntered([n \in 1..Len(c.scopes) |-> None],
                                       c.scopes, 0, 1, 0)
            /\ UNCHANGED result
       ELSE /\ pc' = "done"
            /\ chunk' = Chunk_clear_instructions(c.main_chunk)
            /\ result' = InterpretCompileError
            /\ UNCHANGED <<globals, call_stack, entered>>

InterpretSource ==
    /\ pc = "source"
    /\ Compiled(Compiler_compile(source))
    /\ UNCHANGED <<source, stack, had_error, output, executed, main_return,
                   calls, written, cleared, last_next, writes, lexer, scanned,
                   compared>>

Running_ignores_had_error == pc = "run" /\ Chunk_next(chunk).op.some

\* The loop of interpret_chunk goes on: no error so far, an instruction left
Running == pc = "run" /\ ~had_error /\ Chunk_next(chunk).op.some
Fetched == Chunk_next(chunk).op.v

\* The machine as the fetched instruction finds it
Machine ==
    [stack |-> stack, call_stack |-> call_stack, globals |-> globals,
     ip |-> chunk.current_instruction + 1, had_error |-> FALSE,
     panicked |-> FALSE, result |-> NoResult, output |-> output,
     frame |-> None, taken |-> FALSE, operands |-> <<>>]

MainRuns == call_stack = <<>> \/ Last(call_stack).func_name = n_main

\* A frame a Return popped takes its scopes' entries with it
ScopeLeft(sizes, m) ==
    [n \in 1..Len(sizes) |->
        IF m.frame.some /\ sizes[n].some /\ sizes[n].v.frames >= Len(call_stack)
        THEN None ELSE sizes[n]]

\* The Calls that have not returned once the pass has made m of the machine:
\* a Call that pushed a frame is kept with the machine it found, and the
\* Return that pops that frame takes it away
CallsAfter(m) ==
    IF Fetched.op = "Call" /\ Len(m.call_stack) = Len(call_stack) + 1
    THEN Append(calls, [stack |-> stack, ip |-> chunk.current_instruction,
                        frames |-> Len(call_stack), arg_count |-> Fetched.a])
    ELSE IF /\ Fetched.op = "Return" /\ m.frame.some /\ calls # <<>>
            /\ Last(calls).frames + 1 = Len(call_stack)
    THEN ButLast(calls)
    ELSE calls

\* The machine m after the pass becomes the state
Becomes(m) ==
    /\ stack' = m.stack
    /\ call_stack' = m.call_stack
    /\ globals' = m.globals
    /\ had_error' = m.had_error
    /\ panicked' = m.panicked
    /\ output' = m.output
    /\ result' = m.result
    /\ pc' = IF m.panicked \/ m.result.kind # "None" THEN "done" ELSE "run"
    /\ chunk' = IF m.result.kind = "InterpretOk"
                THEN Chunk_clear_instructions(
                        [chunk EXCEPT !.current_instruction = m.ip])
                ELSE [chunk EXCEPT !.current_instruction = m.ip]
    /\ executed' = [ip |-> chunk.current_instruction, op |-> Fetched,
                    frame |-> m.frame, taken |-> m.taken,
                    operands |-> m.operands, size |-> Len(stack),
                    frames |-> Len(call_stack)]
    /\ main_return' =
          IF main_return.returned THEN [main_return EXCEPT !.resumed = TRUE]
          ELSE IF Fetched.op = "Return" /\ MainRuns /\ stack # <<>>
          THEN [returned |-> TRUE, value |-> Last(stack), resumed |-> FALSE]
          ELSE main_return
    /\ entered' = ScopeEntered(ScopeLeft(entered, m), compiler.scopes, m.ip,
                               Len(m.call_stack), Len(m.stack))
    /\ calls' = CallsAfter(m)
    /\ UNCHANGED <<source, compiler, pool, written, cleared, last_next, writes,
                   lexer, scanned, compared>>

ExecLoad ==
    /\ Running
    /\ Fetched.op \in {"Constant", "False", "Nil", "True", "GetNative"}
    /\ Becomes(VM_load(Machine, Fetched, pool))

ExecBinaryOp ==
    /\ Running
    /\ Fetched.op \in {"Add", "Subtract", "Multiply", "Divide", "Mod"}
    /\ Becomes(VM_binary_op(Machine, Fetched))

ExecBinaryCmp ==
    /\ Running
    /\ Fetched.op \in {"Equal", "NotEqual", "Greater", "GreaterEqual", "Less",
                       "LessEqual"}
    /\ Becomes(VM_binary_cmp(Machine, Fetched))

ExecUnary ==
    /\ Running
    /\ Fetched.op \in {"Not", "Negate"}
    /\ Becomes(VM_unary(Machine, Fetched))

ExecPop ==
    /\ Running
    /\ Fetched.op = "Pop"
    /\ Becomes(VM_pop(Machine))

ExecGlobal ==
    /\ Running
    /\ Fetched.op \in {"DefineGlobal", "GetGlobal", "SetGlobal"}
    /\ Becomes(VM_global(Machine, Fetched))

ExecLocal ==
    /\ Running
    /\ Fetched.op \in {"GetLocal", "SetLocal"}
    /\ Becomes(VM_local(Machine, Fetched))

ExecObject ==
    /\ Running
    /\ Fetched.op \in {"GetGlobalProperty", "GetLocalProperty", "GetProperty",
                       "SetGlobalProperty", "SetLocalProperty", "Index",
                       "CreateInstance"}
    /\ \E overflow_checks \in BOOLEAN :
          Becomes(VM_object(Machine, Fetched, overflow_checks))

ExecJump ==
    /\ Running
    /\ Fetched.op \in {"JumpTo", "JumpIfFalse", "Jump", "JumpIfTrue", "Loop"}
    /\ Becomes(VM_jump(Machine, Fetched))

ExecCall ==
    /\ Running
    /\ Fetched.op = "Call"
    /\ \E r \in NativeOutcomes(Machine, Fetched.a) :
          Becomes(VM_call(Machine, Fetched, r))

ExecReturn ==
    /\ Running
    /\ Fetched.op = "Return"
    /\ Becomes(VM_return(Machine))

ExecStart ==
    /\ Running
    /\ Fetched.op = "Start"
    /\ Becomes(Machine)

ExecStop ==
    /\ Running
    /\ Fetched.op = "Stop"
    /\ Becomes(VM_stop(Machine))

\* The loop ends without an instruction: had_error, or the end of the code
Halt ==
    /\ pc = "run"
    /\ had_error \/ ~Chunk_next(chunk).op.some
    /\ result' = IF had_error THEN InterpretRuntimeError ELSE InterpretOk(0)
    /\ pc' = "done"
    /\ chunk' = Chunk_clear_instructions(chunk)
    /\ UNCHANGED <<source, compiler, stack, call_stack, globals, had_error,
                   output, executed, main_return, entered, calls, pool, written,
                   cleared, last_next, writes, panicked, lexer, scanned,
                   compared>>

InitExpression ==
    /\ source \in ExpressionPrograms
    /\ pc = "source"
    /\ compiler = NoCompiler
    /\ stack = <<>>
    /\ call_stack = <<>>
    /\ globals = <<None>>
    /\ had_error = FALSE
    /\ result = NoResult
    /\ output = <<>>
    /\ executed = NothingExecuted
    /\ main_return = NoMainReturn
    /\ entered = <<>>
    /\ calls = <<>>
    /\ LexerIdle
    /\ TypesIdle
    /\ ChunkIdle
    /\ PoolIdle
    /\ panicked = FALSE

Next ==
    \/ InterpretSource
    \/ ExecLoad
    \/ ExecBinaryOp
    \/ ExecBinaryCmp
    \/ ExecUnary
    \/ ExecPop
    \/ ExecGlobal
    \/ ExecLocal
    \/ ExecObject
    \/ ExecJump
    \/ ExecCall
    \/ ExecReturn
    \/ ExecStart
    \/ ExecStop
    \/ Halt

Spec == Init /\ [][Next]_vars
SpecExpression == InitExpression /\ [][Next]_vars

(***************************************************************************)
(* Claims about the chunk and the constant pool.                           *)
(***************************************************************************)

\* C7: after any sequence of write, set_jump_at, next and clear_instructions
\* the counts of the line table sum to the number of instructions in code.
C7_LineCountsSumToCodeLength == SumCounts(chunk.lines) = Len(chunk.code)

\* C8: after a sequence of writes alone, get_line(k) is the line passed to
\* the write that produced instruction k, and None for every k at or past
\* the number of instructions.
C8_GetLineIsTheWrittenLine ==
    ~cleared =>
        /\ \A k \in 0..(Len(written) - 1) :
              Chunk_get_line(chunk, k) = Some(written[k + 1])
        /\ \A k \in Len(chunk.code)..(MaxWrites + 1) :
              Chunk_get_line(chunk, k) = None

\* A chunk of three writes on two lines, the first two merged into one run.
C8_Witness ==
    /\ ~cleared
    /\ Len(written) = 3
    /\ written[1] = written[2]
    /\ written[2] # written[3]
    /\ Len(chunk.lines) = 2

\* C9: two writes of structurally equal values return the same index and
\* the second does not grow the pool; a write of a value equal to no stored
\* value appends it and returns the new last index.  (NaN, which no f64
\* equals, is left out of the first half.)
C9_EqualValuesShareOneIndex ==
    /\ \A i \in 1..Len(writes) : \A j \in (i + 1)..Len(writes) :
          (writes[i].value = writes[j].value /\ ~IsNaN(writes[i].value)) =>
              /\ writes[i].index = writes[j].index
              /\ ~writes[j].grew
    /\ \A j \in 1..Len(writes) :
          (\A i \in 1..(j - 1) : writes[i].value # writes[j].value) =>
              /\ writes[j].grew
              /\ pool[writes[j].index + 1] = writes[j].value

(***************************************************************************)
(* Claims about compile and the run of the compiled chunk.                 *)
(***************************************************************************)
Compiled_ok == pc # "source" /\ compiler.status = "Success"

LastExecuted(ops) == executed.op.op \in ops

\* C1: the first Return executed while main is the running function ends
\* interpretation with InterpretOk(i) for a return value Int(i) and
\* InterpretOk(0) for any other value, and no instruction follows it.
C1_FirstReturnOfMainEndsInterpretation ==
    (Compiled_ok /\ main_return.returned) =>
        /\ pc = "done"
        /\ ~main_return.resumed
        /\ result = InterpretOk(IF main_return.value.t = "Int"
                                THEN main_return.value.i ELSE 0)

\* The frame a Return popped was pushed by a Call: every frame but main's is.
ReturnedFromCall ==
    /\ Compiled_ok
    /\ ~panicked
    /\ LastExecuted({"Return"})
    /\ executed.frame.some
    /\ executed.frame.v.func_name # n_main

\* C2 as stated: after the Return of a frame pushed by Call(n) the operand
\* stack holds caller_stack_base + 1 values and current_ip is the return_ip
\* of the popped frame.
C2_StackIsCallerBasePlusOne ==
    (ReturnedFromCall /\ call_stack # <<>>) =>
        /\ Len(stack) = Last(call_stack).stack_index + 1
        /\ chunk.current_instruction = executed.frame.v.return_address

\* C2, amended: after the Return of a frame pushed by Call(n) the operand
\* stack holds as many values as the popped frame's stack_base (the callee's
\* slot now holds the return value, everything of the caller beneath it is
\* kept) and current_ip is the return_ip of the popped frame.
C2_StackIsCalleeBase ==
    ReturnedFromCall =>
        /\ Len(stack) = executed.frame.v.stack_index
        /\ Last(stack) = executed.operands[1]
        /\ chunk.current_instruction = executed.frame.v.return_address

\* A function returned to a caller that holds a local beneath the call.
C2_Witness ==
    /\ ReturnedFromCall
    /\ call_stack # <<>>
    /\ executed.frame.v.stack_index > Last(call_stack).stack_index + 1
    /\ Len(stack) = executed.frame.v.stack_index

Arithmetic == {"Add", "Subtract", "Multiply", "Divide", "Mod"}

\* C3: a program compile accepted never applies Add, Subtract, Multiply,
\* Divide or Mod to a Bool, Nil, Type or Object operand: the operands are
\* Int or Float, or Strings under Add.
C3_ArithmeticOperandsAreDefined ==
    (Compiled_ok /\ LastExecuted(Arithmetic) /\ Len(executed.operands) = 2) =>
        /\ ~panicked
        /\ \A n \in 1..2 :
              \/ executed.operands[n].t \in {"Int", "Float"}
              \/ executed.op.op = "Add" /\ executed.operands[n].t = "String"

RECURSIVE BraceDepth(_, _)
BraceDepth(toks, n) ==
    IF n = 0 THEN 0
    ELSE BraceDepth(toks, n - 1)
         + (IF toks[n].type = "LeftBrace" THEN 1
            ELSE IF toks[n].type = "RightBrace" THEN 0 - 1 ELSE 0)

\* A declaration inside braces whose initialiser starts with the declared name
HasLocalSelfReference(toks) ==
    \E n \in 1..(Len(toks) - 3) :
        /\ toks[n].type \in {"Var", "IntType", "FloatType", "StringType", "BoolType"}
        /\ toks[n + 1].type = "Identifier"
        /\ toks[n + 2].type = "Equal"
        /\ toks[n + 3].type = "Identifier"
        /\ toks[n + 3].lexeme = toks[n + 1].lexeme
        /\ BraceDepth(toks, n) > 0

\* C4: compile returns Fail for every program with a local declaration whose
\* initialiser references the name being declared, whatever else is in scope.
C4_SelfReferenceFailsToCompile ==
    (pc # "source" /\ HasLocalSelfReference(source)) => compiler.status = "Fail"

ForwardJumps == {"Jump", "JumpIfFalse", "JumpIfTrue"}

\* C5: every jump patched by patch_jump at branch_ip when the chunk size was
\* target_ip stores target_ip - branch_ip - 1, and the VM taking that jump
\* leaves current_ip at target_ip.
C5_PatchedJumpLandsOnTarget ==
    (pc # "source" /\ compiler.status \in {"Success", "Fail"}) =>
        \A n \in 1..Len(compiler.patches) :
            LET patch == compiler.patches[n]
                jump == compiler.code[patch.branch_ip + 1]
            IN  /\ jump.op \in ForwardJumps
                /\ jump.a = patch.target_ip - patch.branch_ip - 1
                /\ (/\ pc = "run"
                    /\ LastExecuted(ForwardJumps)
                    /\ executed.taken
                    /\ executed.ip = patch.branch_ip)
                   => chunk.current_instruction = patch.target_ip

\* The VM took a patched JumpIfFalse over at least one instruction.
C5_Witness ==
    /\ pc = "run"
    /\ LastExecuted({"JumpIfFalse"})
    /\ executed.taken
    /\ \E n \in 1..Len(compiler.patches) :
          /\ compiler.patches[n].branch_ip = executed.ip
          /\ compiler.patches[n].target_ip > executed.ip + 1
          /\ chunk.current_instruction = compiler.patches[n].target_ip

Blocks == {n \in 1..Len(compiler.scopes) :
              compiler.scopes[n].kind \in {"block", "for"}}

\* C6: for every block of a compiled function body end_scope emits one Pop
\* for each local declared in the block and nothing else, and a run that
\* goes from the block's entry to its exit without a Return finds the
\* operand stack at the size it had on entry.
C6_BlockRestoresStack ==
    Compiled_ok =>
        \A n \in Blocks :
            LET scope == compiler.scopes[n] IN
            /\ scope.end_ip - scope.pop_ip = scope.declared
            /\ \A ip \in scope.pop_ip..(scope.end_ip - 1) :
                  compiler.code[ip + 1].op = "Pop"
            /\ (/\ pc = "run"
                /\ entered[n].some
                /\ entered[n].v.frames = Len(call_stack)
                /\ chunk.current_instruction = scope.end_ip)
               => Len(stack) = entered[n].v.size

\* A run left a block that declared two locals, after executing its Pops.
C6_Witness ==
    /\ Compiled_ok
    /\ pc = "run"
    /\ LastExecuted({"Pop"})
    /\ \E n \in Blocks :
          /\ compiler.scopes[n].kind = "block"
          /\ compiler.scopes[n].declared = 2
          /\ entered[n].some
          /\ entered[n].v.frames = Len(call_stack)
          /\ chunk.current_instruction = compiler.scopes[n].end_ip
          /\ Len(stack) = entered[n].v.size

\* The functions named main a program declares
MainCount(toks) ==
    Cardinality({n \in 1..(Len(toks) - 1) :
                    /\ toks[n].type = "Func"
                    /\ toks[n + 1].type = "Identifier"
                    /\ toks[n + 1].lexeme = n_main})

\* C10: compile returns Fail for a program that declares no function named
\* main and for a program that declares two; interpret_source then returns
\* InterpretCompileError.  (compile returns unless the compiler panics.)
C10_WithoutOneMainCompileFails ==
    (pc # "source" /\ MainCount(source) # 1) =>
        /\ compiler.status # "Success"
        /\ ~panicked => /\ compiler.status = "Fail"
                        /\ result = InterpretCompileError

\* A program with two mains failed to compile on its second main alone.
C10_Witness ==
    /\ MainCount(source) = 2
    /\ pc = "done"
    /\ compiler.status = "Fail"
    /\ compiler.errors = <<"is already defined">>

\* A program without main and with no other error failed to compile.
C10_WitnessNoMain ==
    /\ MainCount(source) = 0
    /\ Len(source) > 0
    /\ pc = "done"
    /\ compiler.status = "Fail"
    /\ compiler.errors = <<>>

\* C11: when compile returns Fail, interpret_source returns
\* InterpretCompileError and the loop of interpret_chunk never runs: no
\* instruction is executed, the operand stack and the call stack stay empty
\* and globals stays as VM::new made it.
C11_CompileFailRunsNothing ==
    (pc # "source" /\ compiler.status = "Fail") =>
        /\ pc = "done"
        /\ result = InterpretCompileError
        /\ executed = NothingExecuted
        /\ stack = <<>>
        /\ call_stack = <<>>
        /\ globals = <<None>>
        /\ output = <<>>

\* A program with a main and a compile error was refused, instructions written.
C11_Witness ==
    /\ pc = "done"
    /\ compiler.status = "Fail"
    /\ compiler.errors # <<>>
    /\ MainCount(source) = 1
    /\ Len(compiler.code) > 2
    /\ result = InterpretCompileError

\* C12: once had_error is set the next pass of the loop returns
\* InterpretRuntimeError: no instruction is fetched or executed, and the
\* operand stack, the globals and the call stack stay as the failing
\* instruction left them.
C12_ErrorEndsInterpretation ==
    [][had_error =>
          /\ pc' = "done"
          /\ result' = InterpretRuntimeError
          /\ UNCHANGED <<stack, globals, call_stack, executed, output, had_error>>]_vars

\* A native call failed and the run ended with InterpretRuntimeError.
C12_Witness ==
    /\ had_error
    /\ pc = "done"
    /\ result = InterpretRuntimeError
    /\ executed.op.op = "Call"

(***************************************************************************)
(* Calls as they are written in the source: the sites, the arguments       *)
(* written at each and the parameters the callee was declared with.        *)
(***************************************************************************)
\* The commas between position n and the parenthesis that closes the list
RECURSIVE ArgScan(_, _, _, _)
ArgScan(toks, n, depth, commas) ==
    IF n > Len(toks) THEN commas
    ELSE IF toks[n].type = "RightParenthesis"
    THEN IF depth = 0 THEN commas ELSE ArgScan(toks, n + 1, depth - 1, commas)
    ELSE IF toks[n].type = "LeftParenthesis"
    THEN ArgScan(toks, n + 1, depth + 1, commas)
    ELSE IF toks[n].type = "Comma" /\ depth = 0
    THEN ArgScan(toks, n + 1, depth, commas + 1)
    ELSE ArgScan(toks, n + 1, depth, commas)

\* The items written in the list that the parenthesis at n opens
ItemsWritten(toks, n) ==
    IF toks[n + 1].type = "RightParenthesis" THEN 0
    ELSE 1 + ArgScan(toks, n + 1, 0, 0)

\* Where toks declares the function called name
FuncDeclarations(toks, name) ==
    {m \in 1..(Len(toks) - 2) :
        /\ toks[m].type = "Func"
        /\ toks[m + 1].type = "Identifier" /\ toks[m + 1].lexeme = name
        /\ toks[m + 2].type = "LeftParenthesis"}

NativeNames == {Natives[n].name : n \in 1..Len(Natives)}

\* The calls of a native or of a function the source declares
CallSites(toks) ==
    {n \in 1..(Len(toks) - 2) :
        /\ toks[n].type = "Identifier" /\ toks[n + 1].type = "LeftParenthesis"
        /\ (n > 1 => toks[n - 1].type # "Func")
        /\ \/ toks[n].lexeme \in NativeNames
           \/ FuncDeclarations(toks, toks[n].lexeme) # {}}

\* The arity of the function or native called at site n
CalleeArity(toks, n) ==
    IF toks[n].lexeme \in NativeNames
    THEN Len((CHOOSE nf \in {Natives[k] : k \in 1..Len(Natives)} :
                 nf.name = toks[n].lexeme).ty.params)
    ELSE ItemsWritten(toks, 2 + CHOOSE m \in FuncDeclarations(toks, toks[n].lexeme) : TRUE)

TooFewArguments(toks) ==
    \E n \in CallSites(toks) : ItemsWritten(toks, n + 1) < CalleeArity(toks, n)

TooManyArguments(toks) ==
    \E n \in CallSites(toks) : ItemsWritten(toks, n + 1) > CalleeArity(toks, n)

\* A Bool or String literal is the one argument of a function declared with
\* an int parameter
MistypedArgument(toks) ==
    \E n \in CallSites(toks) :
        /\ n + 3 <= Len(toks)
        /\ toks[n + 2].type \in {"True", "False", "String"}
        /\ toks[n + 3].type = "RightParenthesis"
        /\ \E m \in FuncDeclarations(toks, toks[n].lexeme) :
               toks[m + 3].type = "IntType"

\* C13: a call with a number of arguments other than the callee's arity,
\* fewer or more, and a call with an argument of the wrong type, are compile
\* errors: compile returns Fail.
C13_MismatchedCallFails ==
    (pc # "source"
        /\ (TooFewArguments(source) \/ TooManyArguments(source)
               \/ MistypedArgument(source)))
    => (compiler.status = "Fail" /\ compiler.errors # <<>>)

\* C13, the part that holds: too few arguments, or a mistyped one, and not
\* too many anywhere
C13_TooFewOrMistypedFails ==
    (pc # "source" /\ ~TooManyArguments(source)
        /\ (TooFewArguments(source) \/ MistypedArgument(source)))
    => (compiler.status = "Fail" /\ compiler.errors # <<>>)

\* C13, the part that fails: one argument too many and the compiler reads
\* the type of a parameter that is not there, which is unreachable!()
C13_TooManyPanics ==
    (pc # "source" /\ TooManyArguments(source)) => compiler.status = "Panicked"

C13_WitnessTooFew ==
    pc = "done" /\ TooFewArguments(source) /\ compiler.status = "Fail"

C13_WitnessTooMany ==
    pc = "done" /\ TooManyArguments(source) /\ compiler.status = "Panicked"

(***************************************************************************)
(* One binary instruction on its own: interpret_chunk on a chunk of one    *)
(* arithmetic or comparison instruction with two values on the stack.      *)
(***************************************************************************)
ArithmeticOps == {"Add", "Subtract", "Multiply", "Divide", "Mod"}
OrderOps == {"Greater", "GreaterEqual", "Less", "LessEqual"}
ComparisonOps == OrderOps \cup {"Equal", "NotEqual"}

\* The values an operand is drawn from
Operands ==
    {NilV, IntV(0), IntV(2), IntV(7), IntV(0 - 7), FloatV(0), FloatV(15),
     FloatNaN, StringV(<<"a">>), StringV(<<"a", "b">>), BoolV(TRUE),
     BoolV(FALSE), ClassV(<<"P">>), NativeFunctionV(n_print)}

InitBinary ==
    /\ \E op \in ArithmeticOps \cup ComparisonOps :
          chunk = [code |-> <<Op(op)>>, current_instruction |-> 0,
                   lines |-> <<Line_new(1)>>]
    /\ stack \in {<<left, right>> : left \in Operands, right \in Operands}
    /\ pc = "run"
    /\ source = <<>>
    /\ compiler = NoCompiler
    /\ call_stack = <<CallFrame_new(0, 0, n_main)>>
    /\ globals = <<>>
    /\ had_error = FALSE
    /\ result = NoResult
    /\ output = <<>>
    /\ executed = NothingExecuted
    /\ main_return = NoMainReturn
    /\ entered = <<>>
    /\ calls = <<>>
    /\ written = <<>>
    /\ cleared = FALSE
    /\ last_next = None
    /\ LexerIdle
    /\ TypesIdle
    /\ PoolIdle
    /\ panicked = FALSE

NextBinary == ExecBinaryOp \/ ExecBinaryCmp \/ Halt

SpecBinary == InitBinary /\ [][NextBinary]_vars

\* The instruction has been executed on the pair left, right
Applied(ops) == executed.op.op \in ops /\ Len(executed.operands) = 2
LeftOperand == executed.operands[1]
RightOperand == executed.operands[2]

\* Two Ints, two Floats or two Strings
OrderedPair(left, right) ==
    left.t = right.t /\ left.t \in {"Int", "Float", "String"}

\* What the order instruction op is to push for an ordered pair
OrderHolds(op, left, right) ==
    IF left.t = "String"
    THEN CASE op = "Greater" -> StrCmp(left.s, right.s) = "Greater"
           [] op = "GreaterEqual" -> StrCmp(left.s, right.s) # "Less"
           [] op = "Less" -> StrCmp(left.s, right.s) = "Less"
           [] op = "LessEqual" -> StrCmp(left.s, right.s) # "Greater"
    ELSE /\ ~IsNaN(left) /\ ~IsNaN(right)
         /\ CASE op = "Greater" -> left.i > right.i
              [] op = "GreaterEqual" -> left.i >= right.i
              [] op = "Less" -> left.i < right.i
              [] op = "LessEqual" -> left.i <= right.i

\* C14: an order comparison of two Ints, two Floats or two Strings pushes
\* the Bool of the comparison; of any other pair it raises a runtime error
\* and the VM halts with InterpretRuntimeError.
C14_OrderComparison ==
    Applied(OrderOps) =>
        IF OrderedPair(LeftOperand, RightOperand)
        THEN /\ ~had_error /\ ~panicked
             /\ stack = <<BoolV(OrderHolds(executed.op.op, LeftOperand,
                                           RightOperand))>>
        ELSE /\ had_error
             /\ pc = "done" => result = InterpretRuntimeError

\* C14, the part that holds: the ordered pairs
C14_OrderedPairsPushBool ==
    (Applied(OrderOps) /\ OrderedPair(LeftOperand, RightOperand)) =>
        /\ ~had_error /\ ~panicked
        /\ stack = <<BoolV(OrderHolds(executed.op.op, LeftOperand,
                                      RightOperand))>>

\* C14, what the code does with the other pairs: no error, Bool(false)
C14_OtherPairsPushFalse ==
    (Applied(OrderOps) /\ ~OrderedPair(LeftOperand, RightOperand)) =>
        /\ ~had_error /\ ~panicked
        /\ stack = <<BoolV(LeftOperand.t = "Nil" /\ RightOperand.t = "Nil"
                           /\ executed.op.op \in {"GreaterEqual", "LessEqual"})>>
        /\ pc = "done" => result = InterpretOk(0)

C14_WitnessOrdered ==
    /\ pc = "done" /\ Applied({"Less"})
    /\ LeftOperand = StringV(<<"a">>) /\ RightOperand = StringV(<<"a", "b">>)
    /\ stack = <<BoolV(TRUE)>>

C14_WitnessOther ==
    /\ pc = "done" /\ Applied({"Less"})
    /\ LeftOperand = IntV(0) /\ RightOperand = FloatV(15)
    /\ stack = <<BoolV(FALSE)>> /\ result = InterpretOk(0)

\* C14 in a whole program: var t = true < false; compiles, the operand
\* types being equal, and is to raise the runtime error
C14_OrderComparisonInPrograms ==
    (Applied(OrderOps) /\ ~OrderedPair(LeftOperand, RightOperand)) => had_error

(***************************************************************************)
(* Declarations as they are written in the source.                         *)
(***************************************************************************)
\* A variable declaration with an initializer, other than a for's
VarDeclarations(toks) ==
    {n \in 1..(Len(toks) - 2) :
        /\ toks[n].type \in {"IntType", "Var"}
        /\ toks[n + 1].type = "Identifier"
        /\ toks[n + 2].type = "Equal"
        /\ (n > 1 => toks[n - 1].type # "LeftParenthesis")}

\* The declaration at n lies in the block of the one at m, nested or not
InBlockOf(toks, m, n) ==
    /\ m < n
    /\ toks[m + 1].lexeme = toks[n + 1].lexeme
    /\ \A k \in m..n : BraceDepth(toks, k) >= BraceDepth(toks, m)

DuplicateLocals(toks) ==
    {<<m, n>> \in VarDeclarations(toks) \X VarDeclarations(toks) :
        /\ InBlockOf(toks, m, n)
        /\ BraceDepth(toks, m) >= 1
        /\ BraceDepth(toks, n) = BraceDepth(toks, m)}

ShadowingLocals(toks) ==
    {<<m, n>> \in VarDeclarations(toks) \X VarDeclarations(toks) :
        /\ InBlockOf(toks, m, n)
        /\ BraceDepth(toks, m) >= 1
        /\ BraceDepth(toks, n) > BraceDepth(toks, m)}

\* The names the source declares as globals, one entry for each declaration
GlobalDeclarations(toks) ==
    {n \in 1..(Len(toks) - 1) :
        /\ BraceDepth(toks, n) = 0
        /\ toks[n].type \in {"IntType", "Var", "Func", "Class", "Identifier"}
        /\ toks[n + 1].type = "Identifier"
        /\ (n > 1 => toks[n - 1].type \notin {"LeftParenthesis", "Comma"})}

DuplicateGlobals(toks) ==
    {<<m, n>> \in GlobalDeclarations(toks) \X GlobalDeclarations(toks) :
        m < n /\ toks[m + 1].lexeme = toks[n + 1].lexeme}

Reported(tag) == \E n \in 1..Len(compiler.errors) : compiler.errors[n] = tag

\* No compile error other than a redeclaration was reported: the parser
\* was not put off its course by an earlier error
OnlyRedeclarationsReported ==
    \A n \in 1..Len(compiler.errors) :
        compiler.errors[n] \in {"already exists in this scope",
                                "is already defined"}

\* C15: a local declared twice at one scope depth is a compile error, a
\* global declared twice is a compile error, and a local with the name of a
\* local of a shallower depth is accepted (in a source with no other error).
C15_Redeclaration ==
    (pc # "source" /\ compiler.status # "Panicked"
        /\ OnlyRedeclarationsReported) =>
        /\ DuplicateLocals(source) # {} =>
              (compiler.status = "Fail" /\ Reported("already exists in this scope"))
        /\ DuplicateGlobals(source) # {} =>
              (compiler.status = "Fail" /\ Reported("is already defined"))
        /\ (DuplicateLocals(source) = {} /\ ShadowingLocals(source) # {}) =>
              ~Reported("already exists in this scope")

C15_WitnessLocal ==
    /\ pc = "done"
    /\ \E d \in DuplicateLocals(source) : BraceDepth(source, d[1]) = 2
    /\ compiler.errors = <<"already exists in this scope">>

C15_WitnessGlobal ==
    /\ pc = "done" /\ DuplicateGlobals(source) # {} /\ MainCount(source) = 1
    /\ compiler.errors = <<"is already defined">>

C15_WitnessShadowing ==
    /\ pc = "done" /\ ShadowingLocals(source) # {}
    /\ compiler.status = "Success" /\ result.kind = "InterpretOk"

\* The source has a ';' where a declaration or statement starts: a warning
StrayWritten(toks) ==
    \E n \in 1..Len(toks) :
        /\ toks[n].type = "Semicolon"
        /\ (n > 1 => toks[n - 1].type \in {"Semicolon", "LeftBrace", "RightBrace"})

LexerErrorWritten(toks) == \E n \in 1..Len(toks) : toks[n].type = "LexError"

\* C16: compile returns Success exactly when no lexer or compile error was
\* reported and a main was found; an error reported is never forgotten, and
\* a warning does not make compile return Fail.
C16_SuccessIffNoErrorAndMain ==
    (pc # "source" /\ compiler.status # "Panicked") =>
        /\ compiler.status \in {"Success", "Fail"}
        /\ compiler.status = "Success"
              <=> (compiler.errors = <<>> /\ compiler.found_main)
        /\ LexerErrorWritten(source) => Reported("lexer error")

\* An error, the recovery from it, a main found after it: Fail
C16_WitnessRecovered ==
    /\ pc = "done" /\ compiler.status = "Fail" /\ compiler.found_main
    /\ Len(compiler.errors) = 3 /\ compiler.errors[1] = "illegal expression"

\* A lexer error alone: Fail
C16_WitnessLexerError ==
    /\ pc = "done" /\ compiler.status = "Fail" /\ compiler.found_main
    /\ compiler.errors = <<"lexer error">>

\* Warnings alone: Success, and the program runs
C16_WitnessWarning ==
    /\ pc = "done" /\ compiler.status = "Success" /\ StrayWritten(source)
    /\ result = InterpretOk(7)

(***************************************************************************)
(* The lexer on its own: scan_token called again and again on one source.  *)
(***************************************************************************)
MaxText == 3
MaxScans == MaxText + 2

LexerAlphabet ==
    {"o", "r", "1", " ", "\n", "/", "*", "=", "\"", "#", NonAscii}

Texts == UNION {[1..n -> LexerAlphabet] : n \in 0..MaxText}

InitLexer ==
    /\ lexer \in {Lexer_new(text) : text \in Texts}
    /\ scanned = <<>>
    /\ TypesIdle
    /\ InterpreterIdle
    /\ ChunkIdle
    /\ PoolIdle
    /\ panicked = FALSE

ScanToken ==
    /\ ~panicked
    /\ Len(scanned) < MaxScans
    /\ lexer' = Lexer_scan_token_text(lexer).lx
    /\ scanned' = Append(scanned, Lexer_scan_token_text(lexer).item)
    /\ panicked' = Lexer_scan_token_text(lexer).lx.panicked
    /\ UNCHANGED <<chunk, written, cleared, last_next, pool, writes, source,
                   pc, compiler, stack, call_stack, globals, had_error,
                   result, output, executed, main_return, entered, calls,
                   compared>>

NextLexer == ScanToken

SpecLexer == InitLexer /\ [][NextLexer]_vars

\* Every character of the source has been taken from the iterator
Exhausted == lexer.source_iterator = Len(lexer.source)

EofReturned == scanned # <<>> /\ Last(scanned).type = "Eof"

IsAscii(text) == \A n \in 1..Len(text) : text[n] # NonAscii

\* C17: once the source is exhausted scan_token returns Eof with an empty
\* lexeme, and after an Eof every call returns Eof again, also after a lexer
\* error.
C17_EofOnceExhausted ==
    [][(Exhausted \/ EofReturned) =>
          /\ ~panicked'
          /\ Last(scanned').type = "Eof" /\ Last(scanned').lexeme = <<>>]_vars

\* C17, the part that holds: a source of ASCII characters
C17_AsciiEofOnceExhausted ==
    [][(IsAscii(lexer.source) /\ (Exhausted \/ EofReturned)) =>
          /\ ~panicked'
          /\ Last(scanned').type = "Eof" /\ Last(scanned').lexeme = <<>>]_vars

\* An unfinished comment, then Eof twice
C17_WitnessAscii ==
    /\ Len(scanned) = 3
    /\ scanned[1] = LexerError("IncompleteComment", 1)
    /\ scanned[2] = Tok("Eof", <<>>, 1) /\ scanned[3] = scanned[2]

\* An unfinished comment with a character of two bytes: the error, then the
\* panic of the slice source[3..3] where Eof was due
C17_WitnessPanic ==
    /\ lexer.source = <<"/", "*", NonAscii>>
    /\ scanned = <<LexerError("IncompleteComment", 1), NoToken>>
    /\ panicked

\* The decimal text of the Int operands
DecimalOf(n) ==
    CASE n = 0 -> <<"0">>
      [] n = 2 -> <<"2">>
      [] n = 7 -> <<"7">>
      [] n = 0 - 7 -> <<"-", "7">>

\* The text of an Int, a Bool or a String
TextualForm(v) ==
    CASE v.t = "String" -> v.s
      [] v.t = "Int" -> DecimalOf(v.i)
      [] v.t = "Bool" -> IF v = BoolV(TRUE) THEN <<"t", "r", "u", "e">>
                         ELSE <<"f", "a", "l", "s", "e">>

HasTextualForm(v) == v.t \in {"String", "Int", "Bool"}

IsPrefix(x, y) == Len(x) <= Len(y) /\ SubSeq(y, 1, Len(x)) = x
IsSuffix(x, y) ==
    Len(x) <= Len(y) /\ SubSeq(y, Len(y) - Len(x) + 1, Len(y)) = x

\* C18: Add with a String on either side pushes the String of the left
\* operand's text followed by the right operand's text: an Int in decimal, a
\* Bool as true or false, a String as itself.
C18_AddWithString ==
    (Applied({"Add"}) /\ "String" \in {LeftOperand.t, RightOperand.t}) =>
        /\ ~panicked /\ ~had_error
        /\ Len(stack) = 1 /\ stack[1].t = "String"
        /\ LeftOperand.t = "String" => IsPrefix(LeftOperand.s, stack[1].s)
        /\ RightOperand.t = "String" => IsSuffix(RightOperand.s, stack[1].s)
        /\ (HasTextualForm(LeftOperand) /\ HasTextualForm(RightOperand)) =>
              stack[1] = StringV(TextualForm(LeftOperand)
                                 \o TextualForm(RightOperand))

C18_Witness ==
    /\ pc = "done" /\ Applied({"Add"})
    /\ LeftOperand = IntV(0 - 7) /\ RightOperand = StringV(<<"a", "b">>)
    /\ stack = <<StringV(<<"-", "7", "a", "b">>)>>

BothInt == LeftOperand.t = "Int" /\ RightOperand.t = "Int"
BothNumeric == IsNumber(LeftOperand) /\ IsNumber(RightOperand)

\* q is left / right and m is left % right, both truncating towards zero
IsQuotient(left, right, q, m) ==
    /\ left = q * right + m
    /\ (IF m < 0 THEN 0 - m ELSE m) < (IF right < 0 THEN 0 - right ELSE right)
    /\ (m = 0 \/ (m < 0) = (left < 0))

\* The Int an arithmetic instruction is to give for two Ints
IsIntResult(op, left, right, value) ==
    CASE op = "Add" -> value = left + right
      [] op = "Subtract" -> value = left - right
      [] op = "Multiply" -> value = left * right
      [] op = "Divide" ->
            \E m \in (0 - 7)..7 : IsQuotient(left, right, value, m)
      [] op = "Mod" ->
            \E q \in (0 - 7)..7 : IsQuotient(left, right, q, value)

\* One value is pushed: an Int for two Ints, the Int of the operation, a
\* Float when an operand is a Float
NumericResult ==
    /\ ~panicked /\ ~had_error
    /\ Len(stack) = 1
    /\ IF BothInt
       THEN /\ stack[1].t = "Int"
            /\ IsIntResult(executed.op.op, LeftOperand.i, RightOperand.i,
                           stack[1].i)
       ELSE stack[1].t = "Float"

\* C19: Add, Subtract, Multiply, Divide and Mod on two numeric operands each
\* produce a value: the Int of the operation for two Ints, a Float when an
\* operand is a Float.
C19_NumericArithmetic ==
    (Applied(ArithmeticOps) /\ BothNumeric) => NumericResult

\* C19 for the four operations other than Mod
C19_NumericArithmeticButMod ==
    (Applied(ArithmeticOps \ {"Mod"}) /\ BothNumeric) => NumericResult

\* C19, the part that holds: the divisor of two Ints is not zero
C19_NonZeroDivisor ==
    (Applied(ArithmeticOps) /\ BothNumeric
        /\ ~(BothInt /\ executed.op.op \in {"Divide", "Mod"}
                /\ RightOperand.i = 0))
    => NumericResult

\* C19, the part that fails: an Int divided by the Int zero is a panic
C19_IntDivisionByZeroPanics ==
    (Applied({"Divide"}) /\ BothInt /\ RightOperand.i = 0) =>
        (panicked /\ pc = "done" /\ result = NoResult)

C19_WitnessDivide ==
    /\ pc = "done" /\ Applied({"Divide"})
    /\ LeftOperand = IntV(0 - 7) /\ RightOperand = IntV(2)
    /\ stack = <<IntV(0 - 3)>>

C19_WitnessDivisionByZero ==
    /\ Applied({"Divide"}) /\ LeftOperand = IntV(7) /\ RightOperand = IntV(0)
    /\ panicked

\* The k-th place, in source order, where the source declares a global
RECURSIVE NthDeclaration(_, _)
NthDeclaration(places, k) ==
    IF k = 1 THEN CHOOSE d \in places : \A e \in places : d <= e
    ELSE NthDeclaration(places \ {CHOOSE d \in places : \A e \in places : d <= e},
                        k - 1)

GlobalOps ==
    {"DefineGlobal", "GetGlobal", "SetGlobal", "GetGlobalProperty",
     "SetGlobalProperty"}

\* C20: the k-th global declared gets index k (from 0); when compile returns
\* Success(n), n is the number of globals declared, the globals vector of
\* the VM has length n throughout, and every operand that names a global in
\* the code is smaller than n.
C20_GlobalIndices ==
    (pc # "source" /\ compiler.status # "Panicked") =>
        /\ \A k \in 1..Len(compiler.globals) : compiler.globals[k].index = k - 1
        /\ compiler.status = "Success" =>
              /\ compiler.global_count = Cardinality(GlobalDeclarations(source))
              /\ Len(compiler.globals) = compiler.global_count
              /\ \A k \in 1..Len(compiler.globals) :
                    compiler.globals[k].name =
                        source[NthDeclaration(GlobalDeclarations(source), k) + 1].lexeme
              /\ Len(globals) = compiler.global_count
              /\ \A i \in 1..Len(compiler.code) :
                    compiler.code[i].op \in GlobalOps =>
                        compiler.code[i].a < compiler.global_count

\* int x = 1; class P { int a; } P g = P(1); func main() { print(g.a); }
\* x, P, g and main are 0..3, and g.a is read as property 0 of global 2
C20_Witness ==
    /\ pc = "done" /\ compiler.status = "Success" /\ compiler.global_count = 4
    /\ compiler.globals[1].name = <<"x">> /\ compiler.globals[3].name = <<"g">>
    /\ compiler.globals[4].name = n_main
    /\ Len(globals) = 4
    /\ \E i \in 1..Len(compiler.code) : compiler.code[i] = Op1("DefineGlobal", 2)
    /\ \E i \in 1..Len(compiler.code) :
          compiler.code[i] = Op2("GetGlobalProperty", 2, 0)

(***************************************************************************)
(* Claims about the code of expressions.                                   *)
(***************************************************************************)
\* What ends the main of an expression program: its two locals are popped
ExpressionTail == <<"Pop", "Pop", "Stop", "JumpTo">>

\* The instruction with the value of its constant in the place of the index
Resolved(instruction, constants) ==
    IF instruction.op = "Constant"
    THEN [op |-> "Constant", value |-> constants[instruction.a + 1]]
    ELSE instruction

LastCreateInstance(code) ==
    CHOOSE n \in 1..Len(code) :
        /\ code[n].op = "CreateInstance"
        /\ \A m \in (n + 1)..Len(code) : code[m].op # "CreateInstance"

\* The code of the statement of an expression program: what lies between
\* the initializer of p and the end of main
StatementCode(code, constants) ==
    [n \in 1..(Len(code) - Len(ExpressionTail) - LastCreateInstance(code)) |->
        Resolved(code[LastCreateInstance(code) + n], constants)]

EndsAsMain(code) ==
    \A n \in 1..Len(ExpressionTail) :
        code[Len(code) - Len(ExpressionTail) + n].op = ExpressionTail[n]

CodeOf(c) == StatementCode(c.main_chunk.code, c.constants)

\* The instructions of the expression e compiled on its own, as the
\* statement `e;` of the same main, without the Pop of the statement
ExpressionCode(e) ==
    LET code == CodeOf(Compiler_compile(ExpressionProgram(ExpressionStatement(e))))
    IN  SubSeq(code, 1, Len(code) - 1)

\* The opcode of each operator
OperatorOpCode ==
    [Plus |-> "Add", Minus |-> "Subtract", Star |-> "Multiply",
     Slash |-> "Divide", EqualEqual |-> "Equal", BangEqual |-> "NotEqual",
     Greater |-> "Greater", GreaterEqual |-> "GreaterEqual", Less |-> "Less",
     LessEqual |-> "LessEqual"]
PrefixOpCode == [Bang |-> "Not", Minus |-> "Negate"]

BinaryEmitted(toks, summary, l, op, r) ==
    toks = ExpressionProgram(ExpressionStatement(BinaryExpression(l, op, r))) =>
        /\ EndsAsMain(summary.code)
        /\ StatementCode(summary.code, summary.constants) =
              ExpressionCode(l) \o ExpressionCode(r)
              \o <<Op(OperatorOpCode[op.type]), Op("Pop")>>

UnaryEmitted(toks, summary, op, e) ==
    toks = ExpressionProgram(ExpressionStatement(UnaryExpression(op, e))) =>
        /\ EndsAsMain(summary.code)
        /\ StatementCode(summary.code, summary.constants) =
              ExpressionCode(e) \o <<Op(PrefixOpCode[op.type]), Op("Pop")>>

EmittedInOrder(toks, summary) ==
    summary.status = "Success" =>
        /\ \A l \in LeftOperands, op \in BinaryOperators, r \in RightOperands :
              BinaryEmitted(toks, summary, l, op, r)
        /\ \A op \in UnaryOperators, e \in LeftOperands \cup RightOperands :
              UnaryEmitted(toks, summary, op, e)

\* C21: when compile returns for `l op r` the code is the instructions of l,
\* then those of r, then the one opcode of op, and for `!e` and `-e` the
\* instructions of e and then Not or Negate.
C21_OperandsThenOperator ==
    [][pc = "source" => EmittedInOrder(source, compiler')]_vars

\* (1 + 2) >= -2 has been compiled: Constant, Constant, Add, Constant,
\* Negate, GreaterEqual
C21_Witness ==
    /\ source = ExpressionProgram(ExpressionStatement(
                    BinaryExpression(E_grouping, p_greater_equal, E_negate)))
    /\ compiler.status = "Success"
    /\ \E n \in 1..Len(compiler.code) :
          /\ compiler.code[n] = Op("Negate")
          /\ compiler.code[n + 1] = Op("GreaterEqual")

\* !(true or false) has been compiled
C21_WitnessUnary ==
    /\ source = ExpressionProgram(ExpressionStatement(UnaryExpression(p_bang, E_or)))
    /\ compiler.status = "Success"
    /\ \E n \in 1..Len(compiler.code) : compiler.code[n] = Op("Not")

(***************************************************************************)
(* Claims about Call and Return.                                           *)
(***************************************************************************)
\* The loop is about to execute Call(n) with n arguments over a value
CallFetched ==
    /\ Running
    /\ Fetched.op = "Call"
    /\ Len(stack) >= 1 + Fetched.a

Callee == stack[Len(stack) - Fetched.a]

\* C22: Call(n) on a Function pushes one frame, with the stack size less n
\* as its base and the index of the instruction after the Call as its
\* return address, goes to the first instruction of the function and leaves
\* the operand stack as it is.
C22_CallPushesOneFrame ==
    [][(CallFetched /\ Callee.t = "Function") =>
          /\ ~panicked'
          /\ Len(call_stack') = Len(call_stack) + 1
          /\ SubSeq(call_stack', 1, Len(call_stack)) = call_stack
          /\ Last(call_stack').stack_index = Len(stack) - Fetched.a
          /\ Last(call_stack').return_address = chunk.current_instruction + 1
          /\ Last(call_stack').func_name = Callee.s
          /\ chunk'.current_instruction = Callee.i
          /\ compiler.code[Callee.i + 1] = Op("Start")
          /\ compiler.code[Callee.i].op = "Jump"
          /\ stack' = stack]_vars

\* id(two()) in main: the frame of id lies over its one argument
C22_Witness ==
    /\ executed.op = Op1("Call", 1)
    /\ Len(call_stack) = 2
    /\ Last(call_stack).func_name = <<"i", "d">>
    /\ Last(call_stack).stack_index = Len(stack) - 1
    /\ stack[Len(stack) - 1].t = "Function"
    /\ chunk.current_instruction = stack[Len(stack) - 1].i

\* The loop is about to execute the Return that matches the last Call
ReturnFetched ==
    /\ Running
    /\ Fetched.op = "Return"
    /\ stack # <<>>
    /\ calls # <<>>
    /\ Last(calls).frames + 1 = Len(call_stack)

\* The slots beneath the function slot when the Call was executed
BeneathCall(call) ==
    SubSeq(call.stack, 1, Len(call.stack) - call.arg_count - 1)

\* C23: when the Return that matches a Call(n) has been executed, the slots
\* beneath the function slot are what they were at the Call, the function,
\* its n arguments and all the callee pushed are gone and the return value
\* is in their place, the call stack has the depth it had before the Call,
\* and the next instruction is the one after the Call.
C23_CallThenReturn ==
    [][ReturnFetched =>
          /\ ~panicked'
          /\ stack' = Append(BeneathCall(Last(calls)), Last(stack))
          /\ call_stack' = SubSeq(call_stack, 1, Last(calls).frames)
          /\ chunk'.current_instruction = Last(calls).ip + 1
          /\ compiler.code[Last(calls).ip + 1] =
                Op1("Call", Last(calls).arg_count)]_vars

\* id(..) has returned to a caller that holds a slot beneath the call
C23_Witness ==
    /\ executed.op.op = "Return"
    /\ executed.frame.some
    /\ executed.frame.v.func_name = <<"i", "d">>
    /\ Len(calls) + 1 = Len(call_stack)
    /\ Len(stack) = executed.frame.v.stack_index
    /\ Len(stack) >= 2
    /\ executed.size > Len(stack) + 1

(***************************************************************************)
(* Call on its own: one Call(n) over a native function and n arguments,    *)
(* with or without a slot beneath.                                         *)
(***************************************************************************)
NativeArguments ==
    {IntV(2), FloatV(15), StringV(<<"1">>), StringV(<<"a">>), BoolV(TRUE), NilV}

ArgumentLists(n) ==
    IF n = 0 THEN {<<>>}
    ELSE IF n = 1 THEN {<<v>> : v \in NativeArguments}
    ELSE {<<v, w>> : v \in NativeArguments, w \in NativeArguments}

\* Each native with as many arguments as it declares, and print and println
\* with two as well
NativeCalls ==
    {[name |-> Natives[k].name, args |-> args, beneath |-> beneath] :
        k \in 1..Len(Natives),
        args \in UNION {ArgumentLists(n) : n \in 0..2},
        beneath \in {<<>>, <<IntV(7)>>}}

ArityFits(call) ==
    \E k \in 1..Len(Natives) :
        /\ Natives[k].name = call.name
        /\ \/ Len(call.args) = Len(Natives[k].ty.params)
           \/ call.name \in {n_print, n_println} /\ Len(call.args) = 2

InitNative ==
    /\ \E call \in {c \in NativeCalls : ArityFits(c)} :
          /\ stack = call.beneath \o <<NativeFunctionV(call.name)>> \o call.args
          /\ chunk = [code |-> <<Op1("Call", Len(call.args))>>,
                      current_instruction |-> 0, lines |-> <<Line_new(1)>>]
    /\ pc = "run"
    /\ source = <<>>
    /\ compiler = NoCompiler
    /\ call_stack = <<CallFrame_new(0, 0, n_main)>>
    /\ globals = <<>>
    /\ had_error = FALSE
    /\ result = NoResult
    /\ output = <<>>
    /\ executed = NothingExecuted
    /\ main_return = NoMainReturn
    /\ entered = <<>>
    /\ calls = <<>>
    /\ written = <<>>
    /\ cleared = FALSE
    /\ last_next = None
    /\ LexerIdle
    /\ TypesIdle
    /\ PoolIdle
    /\ panicked = FALSE

NextNative == ExecCall \/ Halt

SpecNative == InitNative /\ [][NextNative]_vars

\* The arguments of the Call that is fetched, the first one first
CallArguments == SubSeq(stack, Len(stack) - Fetched.a + 1, Len(stack))
BeneathCallee == SubSeq(stack, 1, Len(stack) - Fetched.a - 1)

\* The calls whose body returns Err
BodyFails(name, args) ==
    CASE name \in {n_cbrt, n_sqrt} -> args[1].t \notin {"Int", "Float"}
      [] name = n_pow -> args[1].t \notin {"Int", "Float"}
                         \/ args[2].t \notin {"Int", "Float"}
      [] name \in {n_to_int, n_to_float} ->
            \/ args[1].t = "String" /\ args[1].s \in {<<"a">>, <<"x">>}
            \/ args[1].t \notin {"String", "Int", "Float", "Bool"}
      [] OTHER -> FALSE

\* What the body may return when it returns Ok
BodyReturns(name, args, value) ==
    CASE name \in {n_print, n_println} -> value = NilV
      [] name = n_to_int ->
            /\ value.t = "Int"
            /\ args[1] \in {StringV(<<"1">>), BoolV(TRUE), FloatV(15)} => value = IntV(1)
            /\ args[1] = IntV(2) => value = IntV(2)
      [] name = n_to_str ->
            /\ value.t = "String"
            /\ args[1] = IntV(2) => value = StringV(<<"2">>)
            /\ args[1].t = "String" => value = args[1]
      [] name = n_input -> value.t = "String"
      [] name = n_type -> value.t = "Type"
      [] OTHER -> value.t = "Float"

\* What print and println write for the arguments 2 and "a", in this order
WrittenInOrder(name, args, out) ==
    (name \in {n_print, n_println} /\ args = <<IntV(2), StringV(<<"a">>)>>) =>
        out = <<IF name = n_print THEN <<"2", " ", "a">>
                ELSE <<"2", " ", "a", "\n">> >>

\* C24: Call(n) on a NativeFunction takes the n arguments and the function
\* off the stack, calls the body with the arguments first to last, pushes
\* the value an Ok carries and no call frame, and for an Err pushes nothing
\* and raises a runtime error.
C24_NativeCall ==
    [][(CallFetched /\ Callee.t = "NativeFunction" /\ Callee.s # n_exit) =>
          /\ ~panicked'
          /\ call_stack' = call_stack
          /\ chunk'.current_instruction = chunk.current_instruction + 1
          /\ WrittenInOrder(Callee.s, CallArguments, output')
          /\ had_error' = BodyFails(Callee.s, CallArguments)
          /\ IF had_error'
             THEN stack' = BeneathCallee
             ELSE /\ Len(stack') = Len(stack) - Fetched.a
                  /\ ButLast(stack') = BeneathCallee
                  /\ BodyReturns(Callee.s, CallArguments, Last(stack'))]_vars

\* println(2, "a") has written "2 a" and left Nil over the slot beneath
C24_Witness ==
    /\ executed.op = Op1("Call", 2)
    /\ output = << <<"2", " ", "a", "\n">> >>
    /\ stack = <<IntV(7), NilV>>
    /\ Len(call_stack) = 1
    /\ ~had_error

\* to_int(Nil) has failed: the slot beneath is all that is left
C24_WitnessError ==
    /\ executed.op = Op1("Call", 1)
    /\ executed.size = 3
    /\ stack = <<IntV(7)>>
    /\ had_error
    /\ Len(call_stack) = 1

(***************************************************************************)
(* The globals on their own: one DefineGlobal, GetGlobal or SetGlobal over *)
(* a vector of up to MaxGlobals slots, defined or not.                     *)
(***************************************************************************)
MaxGlobals == 2

GlobalSlots == {None, Some(IntV(2)), Some(StringV(<<"a">>))}
GlobalVectors ==
    UNION {[1..n -> GlobalSlots] : n \in 0..MaxGlobals}
GlobalStacks == {<<>>, <<IntV(7)>>, <<IntV(7), BoolV(TRUE)>>}

InitGlobal ==
    /\ \E op \in {"DefineGlobal", "GetGlobal", "SetGlobal"}, index \in 0..MaxGlobals :
          chunk = [code |-> <<Op1(op, index)>>, current_instruction |-> 0,
                   lines |-> <<Line_new(1)>>]
    /\ globals \in GlobalVectors
    /\ stack \in GlobalStacks
    /\ pc = "run"
    /\ source = <<>>
    /\ compiler = NoCompiler
    /\ call_stack = <<CallFrame_new(0, 0, n_main)>>
    /\ had_error = FALSE
    /\ result = NoResult
    /\ output = <<>>
    /\ executed = NothingExecuted
    /\ main_return = NoMainReturn
    /\ entered = <<>>
    /\ calls = <<>>
    /\ written = <<>>
    /\ cleared = FALSE
    /\ last_next = None
    /\ LexerIdle
    /\ TypesIdle
    /\ PoolIdle
    /\ panicked = FALSE

NextGlobal == ExecGlobal \/ Halt

SpecGlobal == InitGlobal /\ [][NextGlobal]_vars

\* The loop is about to execute the instruction op on the globals
GlobalFetched(op) == Running /\ Fetched.op = op

\* Slot i has been given a value
SlotDefined(i) == i < Len(globals) /\ globals[i + 1] # None

\* C25: GetGlobal on a slot never defined raises a runtime error and pushes
\* nothing; SetGlobal on such a slot raises a runtime error and changes no
\* global; on a defined slot SetGlobal puts the top of the stack in that
\* slot alone and leaves the stack as it is.
C25_UndefinedGlobals ==
    [][/\ (GlobalFetched("GetGlobal") /\ ~SlotDefined(Fetched.a)) =>
             /\ had_error' /\ ~panicked'
             /\ stack' = stack
             /\ globals' = globals
       /\ (GlobalFetched("SetGlobal") /\ ~SlotDefined(Fetched.a) /\ stack # <<>>) =>
             /\ had_error' /\ ~panicked'
             /\ globals' = globals
             /\ stack' = stack
       /\ (GlobalFetched("SetGlobal") /\ SlotDefined(Fetched.a) /\ stack # <<>>) =>
             /\ ~had_error' /\ ~panicked'
             /\ Len(globals') = Len(globals)
             /\ globals'[Fetched.a + 1] = Some(Last(stack))
             /\ \A n \in 1..Len(globals) :
                   n # Fetched.a + 1 => globals'[n] = globals[n]
             /\ stack' = stack]_vars

\* SetGlobal(1) on <<defined, undefined>> has failed
C25_Witness ==
    /\ executed.op = Op1("SetGlobal", 1)
    /\ had_error
    /\ globals = <<Some(IntV(2)), None>>
    /\ stack = <<IntV(7), BoolV(TRUE)>>

\* GetGlobal past the end of the vector has failed
C25_WitnessGet ==
    /\ executed.op = Op1("GetGlobal", 2)
    /\ had_error
    /\ Len(globals) = 2
    /\ stack = <<IntV(7)>>

\* SetGlobal(0) has overwritten slot 0 alone
C25_WitnessSet ==
    /\ executed.op = Op1("SetGlobal", 0)
    /\ ~had_error
    /\ globals = <<Some(BoolV(TRUE)), Some(StringV(<<"a">>))>>
    /\ stack = <<IntV(7), BoolV(TRUE)>>

(***************************************************************************)
(* Claims about loops and short-circuit operators.                         *)
(***************************************************************************)
IsForProgram == \E loop \in ForLoops : source = ForProgram(loop)
ForLoop == CHOOSE loop \in ForLoops : source = ForProgram(loop)

\* Indices of instructions in the code of a for program: the first one of
\* the initializer follows the Start of main
InitStart ==
    CHOOSE n \in 1..Len(compiler.code) :
        /\ compiler.code[n].op = "Start"
        /\ \A m \in (n + 1)..Len(compiler.code) : compiler.code[m].op # "Start"
CondStart == InitStart + ForLoop.init
ExitJump ==
    CHOOSE j \in CondStart..(Len(compiler.code) - 1) :
        /\ compiler.code[j + 1].op = "JumpIfFalse"
        /\ \A k \in CondStart..(j - 1) : compiler.code[k + 1].op # "JumpIfFalse"
StepStart == ExitJump + 3
BodyStart == ExitJump + 3 + compiler.code[ExitJump + 3].a
LoopExit == ExitJump + 1 + compiler.code[ExitJump + 1].a

\* The step code ends with Pop and the Loop to the condition, the body with
\* the Loop to the step code, and the exit path begins with a Pop
ForLayout ==
    /\ compiler.code[ExitJump + 2] = Op("Pop")
    /\ compiler.code[ExitJump + 3].op = "Jump"
    /\ StepStart < BodyStart - 2
    /\ compiler.code[BodyStart - 1] = Op("Pop")
    /\ compiler.code[BodyStart] = Op1("Loop", CondStart)
    /\ BodyStart < LoopExit - 1
    /\ compiler.code[LoopExit] = Op1("Loop", StepStart)
    /\ compiler.code[LoopExit + 1] = Op("Pop")

\* What one pass of the loop of the VM does at the index ip of a for
\* program, next being the index it leaves
ForStep(ip, next, base) ==
    /\ ip \in InitStart..(CondStart - 1) => next = ip + 1
    /\ next = InitStart => Fetched.op = "JumpTo"
    /\ ip = InitStart => Len(stack) = base
    /\ ip \in {CondStart, StepStart, BodyStart} =>
          Len(stack) = base + ForLoop.locals
    /\ ip \in CondStart..(ExitJump - 1) => next = ip + 1
    /\ ip = ExitJump =>
          /\ Last(stack).t = "Bool"
          /\ next = IF Last(stack) = BoolV(TRUE) THEN ip + 1 ELSE LoopExit
          /\ stack' = stack
    /\ ip = ExitJump + 1 => stack' = ButLast(stack) /\ next = ip + 1
    /\ ip = ExitJump + 2 => next = BodyStart
    /\ ip \in BodyStart..(LoopExit - 2) => next \in (BodyStart + 1)..(LoopExit - 1)
    /\ ip = LoopExit - 1 => next = StepStart
    /\ ip \in StepStart..(BodyStart - 2) => next = ip + 1
    /\ ip = BodyStart - 1 => next = CondStart
    /\ ip = LoopExit =>
          /\ stack' = ButLast(stack)
          /\ Len(stack') = base + ForLoop.locals
          /\ next = ip + 1
    /\ ip = LoopExit + ForLoop.locals => Len(stack') = base

\* C26: the code of `for (init; c; step) body` runs init once, then c; a
\* falsy c leaves the loop, a truthy c is followed by body, then step, then
\* c again; the value of c is popped once on either path, and after the
\* loop the stack has the size it had before init.
C26_ForLoop ==
    [][(IsForProgram /\ Running) =>
          /\ ForLayout
          /\ ~panicked' /\ ~had_error'
          /\ ForStep(chunk.current_instruction, chunk'.current_instruction,
                     Last(call_stack).stack_index)]_vars

\* for (print(7); x < 2; x = x + 1) print(x); with x = 1 has written 7 and
\* then 1: init once, the body before the step, the exit after the step
C26_Witness ==
    /\ IsForProgram
    /\ ForLoop.statement = S_for_global
    /\ pc = "done"
    /\ output = << <<"7">>, <<"1">> >>
    /\ stack = <<>>
    /\ globals[1] = Some(IntV(2))

\* A condition that is false at once: the body has not run
C26_WitnessNever ==
    /\ IsForProgram
    /\ ForLoop.statement = S_for_never
    /\ pc = "done"
    /\ output = <<>>
    /\ stack = <<>>

\* The step code of the loop over i has jumped back to the condition a
\* second time
C26_WitnessTwice ==
    /\ IsForProgram
    /\ ForLoop.statement = S_for
    /\ pc = "run"
    /\ executed.op = Op1("Loop", CondStart)
    /\ stack = <<IntV(2)>>

\* The value an operand of the logical programs leaves on the stack
OperandValue(e) ==
    CASE e = E_one -> IntV(1)
      [] e = E_seven -> IntV(7)
      [] e = E_true -> BoolV(TRUE)
      [] e = E_false -> BoolV(FALSE)
      [] e = E_or -> BoolV(TRUE)
      [] e = E_call -> IntV(2)
      [] e = E_string -> StringV(<<"x">>)

\* `l and r` goes on to r when l is truthy, `l or r` when l is falsy
EvaluatesRight(l, op) ==
    IF op = kw_and THEN SquatValue_is_truthy(OperandValue(l))
    ELSE ~SquatValue_is_truthy(OperandValue(l))

LogicalValue(l, op, r) ==
    IF EvaluatesRight(l, op) THEN OperandValue(r) ELSE OperandValue(l)

\* The index of the jump of the statement's operator: the last conditional
\* jump of the code
LogicalJump ==
    CHOOSE j \in 0..(Len(compiler.code) - 1) :
        /\ compiler.code[j + 1].op \in {"JumpIfFalse", "JumpIfTrue"}
        /\ \A k \in (j + 1)..(Len(compiler.code) - 1) :
              compiler.code[k + 1].op \notin {"JumpIfFalse", "JumpIfTrue"}

\* The index of the first instruction after the expression
LogicalEnd == LogicalJump + 1 + compiler.code[LogicalJump + 1].a

\* main is at the instruction after the expression of its statement
AfterLogical ==
    /\ source \in LogicalPrograms
    /\ pc = "run"
    /\ compiler.status = "Success"
    /\ Len(call_stack) = 1
    /\ chunk.current_instruction = LogicalEnd

\* One step of the VM in the program `l op r;`
ShortCircuitStep(l, op, r) ==
    /\ compiler.code[LogicalJump + 1].op =
          (IF op = kw_and THEN "JumpIfFalse" ELSE "JumpIfTrue")
    /\ compiler.code[LogicalJump + 2] = Op("Pop")
    /\ compiler.code[LogicalEnd + 1] = Op("Pop")
    /\ ~panicked'
    /\ (Fetched.op = "JumpIfFalse") =>
          /\ stack' = stack
          /\ chunk'.current_instruction =
                IF SquatValue_is_truthy(Last(stack))
                THEN chunk.current_instruction + 1
                ELSE chunk.current_instruction + 1 + Fetched.a
    /\ (Fetched.op = "JumpIfTrue") =>
          /\ stack' = stack
          /\ chunk'.current_instruction =
                IF SquatValue_is_truthy(Last(stack))
                THEN chunk.current_instruction + 1 + Fetched.a
                ELSE chunk.current_instruction + 1
    /\ (chunk.current_instruction = LogicalJump /\ Len(call_stack) = 1) =>
          /\ Last(stack) = OperandValue(l)
          /\ (chunk'.current_instruction # LogicalEnd) <=> EvaluatesRight(l, op)
    /\ (r = E_call /\ l # E_call /\ Len(call_stack') = 2) =>
          EvaluatesRight(l, op)
    /\ (chunk'.current_instruction = LogicalEnd /\ Len(call_stack') = 1) =>
          /\ Len(stack') = Last(call_stack').stack_index + 3
          /\ Last(stack') = LogicalValue(l, op, r)

\* C27: `a and b` evaluates b only when a is truthy and `a or b` only when
\* a is falsy; after the expression one value more than the two locals of
\* main is on the stack, the value of a when b was skipped and the value of
\* b otherwise.
C27_ShortCircuit ==
    [][(source \in LogicalPrograms /\ Running) =>
          \A l \in LogicalLeft, op \in LogicalOperators, r \in LogicalRight :
              source = LogicalProgram(l, op, r) =>
                  ShortCircuitStep(l, op, r)]_vars

\* The value left by the expression is a Bool
C27_LeavesBool == AfterLogical => Last(stack).t = "Bool"

\* false and two(): two was never called, false is the value left
C27_Witness ==
    /\ source = LogicalProgram(E_false, kw_and, E_call)
    /\ AfterLogical
    /\ executed.op.op = "JumpIfFalse"
    /\ executed.taken
    /\ calls = <<>>
    /\ Len(stack) = 3
    /\ Last(stack) = BoolV(FALSE)

\* 1 or two(): two was never called, 1 is the value left
C27_WitnessOr ==
    /\ source = LogicalProgram(E_one, kw_or, E_call)
    /\ AfterLogical
    /\ executed.op.op = "JumpIfTrue"
    /\ executed.taken
    /\ Last(stack) = IntV(1)

\* true and two(): two has returned its 2, the value left
C27_WitnessRight ==
    /\ source = LogicalProgram(E_true, kw_and, E_call)
    /\ AfterLogical
    /\ executed.op.op = "Return"
    /\ Last(stack) = IntV(2)

(***************************************************************************)
(* Claims about the ternary operator and the types of infix expressions.   *)
(***************************************************************************)
\* c1 ? a : (c2 ? b : d)
GroupedTernaryProgram(c1, a, c2, b, d) ==
    TernaryProgram(c1, a, <<p_lp>> \o TernaryExpression(c2, b, d) \o <<p_rp>>)

\* The index of the first instruction after a ternary expression: where its
\* end jump, the last Jump of the code, goes
TernaryEnd ==
    LET j == CHOOSE j \in 0..(Len(compiler.code) - 1) :
                 /\ compiler.code[j + 1].op = "Jump"
                 /\ \A k \in (j + 1)..(Len(compiler.code) - 1) :
                       compiler.code[k + 1].op # "Jump"
    IN  j + 1 + compiler.code[j + 1].a

\* In the program `c ? a : d;` only the chosen branch is entered, and after
\* the expression its value lies over the two locals of main
TernaryRuns(c, a, d) ==
    /\ Len(call_stack) = 2 =>
          \/ a = E_call /\ c = E_true
          \/ d = E_call /\ c = E_false
    /\ (Len(call_stack) = 1 /\ chunk.current_instruction = TernaryEnd) =>
          /\ Len(stack) = Last(call_stack).stack_index + 3
          /\ Last(stack) = OperandValue(IF c = E_true THEN a ELSE d)

\* compile has returned for `c1 ? a : c2 ? b : d;` without an error and with
\* the code of `c1 ? a : (c2 ? b : d);`
NestedTernaryCompiles(c1, a, c2, b, d) ==
    /\ compiler.status = "Success"
    /\ compiler.errors = <<>>
    /\ compiler.code =
          Compiler_compile(GroupedTernaryProgram(c1, a, c2, b, d)).main_chunk.code

\* C28: `c1 ? a : c2 ? b : d` compiles without error as
\* `c1 ? a : (c2 ? b : d)`, and at run time a ternary expression evaluates
\* one of its branches and leaves that branch's value alone in place of the
\* condition.
C28_TernaryRightAssociative ==
    /\ (source \in NestedTernaryPrograms /\ pc # "source") =>
          \A c1 \in Conditions, c2 \in Conditions, br \in Branches :
              source = NestedTernaryProgram(c1, br.a, c2, br.b, br.d) =>
                  NestedTernaryCompiles(c1, br.a, c2, br.b, br.d)
    /\ (source \in TernaryPrograms /\ pc = "run") =>
          \A c \in Conditions, br \in Branches :
              source = TernaryProgram(c, br.a, br.d) => TernaryRuns(c, br.a, br.d)

\* The keyword of the result type of `l op r`, l and r one token each: Bool
\* for the comparisons and and/or, String for + with a String operand, Int
\* for arithmetic on two Ints
ResultType(e) ==
    IF e[2] \in {p_equal_equal, p_bang_equal, p_greater, p_greater_equal,
                 p_less, p_less_equal, kw_and, kw_or}
    THEN kw_bool
    ELSE IF e[1].type = "String" \/ e[3].type = "String"
    THEN W("StringType", <<"s", "t", "r", "i", "n", "g">>)
    ELSE kw_int

\* C29: the type of an infix expression that is checked against the
\* declared type is the result type of its operator, so `type b = l op r;`
\* compiles without error exactly when type is var or that result type, and
\* `println(l op r);` compiles without error.
C29_InfixResultType ==
    (source \in TypedPrograms /\ pc # "source") =>
        /\ \A type \in TypeKeywords, e \in TypedExpressions :
              source = ExpressionProgram(Declaration(type, e)) =>
                  ((compiler.errors = <<>>) <=>
                      (type = kw_var \/ type = ResultType(e)))
        /\ \A e \in TypedExpressions :
              source = ExpressionProgram(PrintlnStatement(e)) =>
                  compiler.errors = <<>>

(***************************************************************************)
(* Claims about the code of function declarations.                         *)
(***************************************************************************)
\* The indices of the jumps that function_declaration emits: each lies
\* before the Start of a body
FunctionJumps ==
    {j \in 0..(Len(compiler.code) - 2) :
        /\ compiler.code[j + 1].op = "Jump"
        /\ compiler.code[j + 2] = Op("Start")}

\* Where the jump at j goes
BodyEnd(j) == j + 1 + compiler.code[j + 1].a

\* The indices of the body behind the jump at j: Start up to the
\* instruction before the jump's target
Body(j) == (j + 1)..(BodyEnd(j) - 1)

InBody(i) == \E j \in FunctionJumps : i \in Body(j)

\* The body of main ends in Stop; the body of another function ends in Nil
\* and Return, and the function is defined right after it
BodyEndsAt(j) ==
    /\ BodyEnd(j) < Len(compiler.code)
    /\ \/ /\ compiler.code[BodyEnd(j)] = Op("Stop")
          /\ Last(compiler.code) = Op1("JumpTo", j + 2)
       \/ /\ compiler.code[BodyEnd(j)] = Op("Return")
          /\ compiler.code[BodyEnd(j) - 1] = Op("Nil")
          /\ compiler.code[BodyEnd(j) + 1].op = "Constant"
          /\ compiler.constants[compiler.code[BodyEnd(j) + 1].a + 1].t = "Function"
          /\ compiler.constants[compiler.code[BodyEnd(j) + 1].a + 1].i = j + 1
          /\ compiler.code[BodyEnd(j) + 2].op = "DefineGlobal"

FunctionLayout == \A j \in FunctionJumps : BodyEndsAt(j)

\* The pass that executes the instruction at ip and goes on at next
BodyStep(ip, next) ==
    /\ (~InBody(ip) /\ Fetched.op \notin {"Call", "JumpTo"}) => ~InBody(next)
    /\ ip \in FunctionJumps => next = BodyEnd(ip)
    /\ \A j \in FunctionJumps :
          (next \in Body(j) /\ ip \notin Body(j)) =>
              \/ Fetched.op = "Call" /\ next = j + 1
              \/ /\ Fetched.op = "JumpTo"
                 /\ ip = Len(compiler.code) - 1
                 /\ next = j + 2
                 /\ compiler.code[BodyEnd(j)] = Op("Stop")
              \/ /\ Fetched.op = "Return"
                 /\ compiler.code[next].op = "Call"

\* C30: the Jump before a function's Start goes to the first instruction
\* after the body's trailing Return or Stop, the code outside the bodies
\* only ever goes on outside them, and a body is entered only at its Start
\* by a Call, after main's Start by the final JumpTo, or after a Call of its
\* own by the Return of the callee.
C30_BodiesAreJumpedOver ==
    [][(Running /\ pc' = "run") =>
          /\ FunctionLayout
          /\ BodyStep(chunk.current_instruction,
                      chunk'.current_instruction)]_vars

\* The top level code has jumped over the body of a function with
\* statements and is about to define the function
C30_Witness ==
    /\ pc = "run"
    /\ executed.op.op = "Jump"
    /\ executed.ip \in FunctionJumps
    /\ executed.op.a > 3
    /\ chunk.current_instruction = BodyEnd(executed.ip)
    /\ Fetched.op = "Constant"
    /\ stack = <<>>

\* The final JumpTo has entered main after its Start
C30_WitnessMain ==
    /\ pc = "run"
    /\ executed.op.op = "JumpTo"
    /\ executed.ip = Len(compiler.code) - 1
    /\ InBody(chunk.current_instruction)
    /\ compiler.code[chunk.current_instruction] = Op("Start")

(***************************************************************************)
(* Claims about the end of the code, Index and instances.                  *)
(***************************************************************************)
\* compile has returned
CompileReturned == compiler.status \in {"Success", "Fail"}

\* The index main_start lies in the code of main: behind its Start, and not
\* behind its Stop
MainStartInMain ==
    /\ compiler.main_start \in 2..(Len(compiler.code) - 2)
    /\ compiler.code[compiler.main_start] = Op("Start")
    /\ (compiler.main_start - 2) \in FunctionJumps
    /\ compiler.code[BodyEnd(compiler.main_start - 2)] = Op("Stop")
    /\ compiler.main_start < BodyEnd(compiler.main_start - 2)

\* C31: when compile has returned the last instruction is
\* JumpTo(main_start); after Success main_start is the index of the
\* instruction behind main's Start, and the JumpTo, once executed, has made
\* it the next instruction with main's frame alone on the call stack.
C31_LastIsJumpToMain ==
    CompileReturned =>
        /\ Last(compiler.code) = Op1("JumpTo", compiler.main_start)
        /\ compiler.status = "Success" => MainStartInMain
        /\ (pc = "run" /\ executed.op.op = "JumpTo") =>
              /\ executed.ip = Len(compiler.code) - 1
              /\ chunk.current_instruction = compiler.main_start
              /\ Len(call_stack) = 1
              /\ Last(call_stack).func_name = n_main

\* The final JumpTo of a program with a prelude has been executed: main's
\* first statement is next
C31_Witness ==
    /\ compiler.status = "Success"
    /\ pc = "run"
    /\ executed.op = Op1("JumpTo", compiler.main_start)
    /\ compiler.main_start > 20
    /\ chunk.current_instruction = compiler.main_start
    /\ compiler.code[compiler.main_start + 1] # Op("Stop")

\* compile has failed without a main: the code ends in JumpTo(0)
C31_WitnessFail ==
    /\ compiler.status = "Fail"
    /\ ~compiler.found_main
    /\ Len(compiler.code) > 1
    /\ Last(compiler.code) = Op1("JumpTo", 0)

(***************************************************************************)
(* Index on its own: one Index over a String and an Int, with or without a *)
(* slot beneath.                                                           *)
(***************************************************************************)
MaxIndex == 4

IndexStrings == {<<>>, <<"a">>, <<"a", "b">>, <<"a", "b", "c">>}
IndexStacks ==
    {beneath \o <<StringV(s), IntV(i)>> :
        beneath \in GlobalStacks, s \in IndexStrings, i \in -2..MaxIndex}

InitIndex ==
    /\ chunk = [code |-> <<Op("Index")>>, current_instruction |-> 0,
                lines |-> <<Line_new(1)>>]
    /\ stack \in IndexStacks
    /\ globals = <<>>
    /\ pc = "run"
    /\ source = <<>>
    /\ compiler = NoCompiler
    /\ call_stack = <<CallFrame_new(0, 0, n_main)>>
    /\ had_error = FALSE
    /\ result = NoResult
    /\ output = <<>>
    /\ executed = NothingExecuted
    /\ main_return = NoMainReturn
    /\ entered = <<>>
    /\ calls = <<>>
    /\ written = <<>>
    /\ cleared = FALSE
    /\ last_next = None
    /\ LexerIdle
    /\ TypesIdle
    /\ PoolIdle
    /\ panicked = FALSE

NextIndex == ExecObject \/ Halt

SpecIndex == InitIndex /\ [][NextIndex]_vars

\* The loop is about to execute Index on an Int over a String
IndexFetched ==
    /\ Running
    /\ Fetched.op = "Index"
    /\ Len(stack) >= 2
    /\ Last(stack).t = "Int"
    /\ Last(ButLast(stack)).t = "String"

IndexGiven == Last(stack).i
Indexed == Last(ButLast(stack)).s

\* C32: Index pops an Int i and a String s; for 0 <= i < len(s) it pushes
\* the string of the one character at i, for every other i it raises a
\* runtime error and pushes nothing, and then the VM halts with
\* InterpretRuntimeError.
C32_Index ==
    [][/\ IndexFetched =>
             /\ ~panicked'
             /\ IF 0 <= IndexGiven /\ IndexGiven < Len(Indexed)
                THEN /\ ~had_error'
                     /\ stack' = Append(ButLast(ButLast(stack)),
                                        StringV(<<Indexed[IndexGiven + 1]>>))
                ELSE /\ had_error'
                     /\ stack' = ButLast(ButLast(stack))
       /\ (pc = "run" /\ had_error /\ executed.op.op = "Index") =>
             result' = InterpretRuntimeError]_vars

(***************************************************************************)
(* Instances on their own: GetLocal or GetGlobal, then SetLocalProperty or *)
(* SetGlobalProperty, over locals above a frame base and globals that hold *)
(* instances of a class of two fields.                                     *)
(***************************************************************************)
MaxFields == 2

Point == InstanceV(<<"P">>, <<IntV(1), IntV(2)>>)
PropertyLocals == {<<Point>>, <<Point, Point>>, <<Point, IntV(3)>>}
PropertyGlobals == {<<Some(Point)>>, <<Some(Point), Some(IntV(3))>>, <<None, Some(Point)>>}
PropertyChunks ==
    {<<Op1(get, from), Op2(set, object_index, property_index)>> :
        get \in {"GetLocal", "GetGlobal"}, from \in 0..1,
        set \in {"SetLocalProperty", "SetGlobalProperty"},
        object_index \in 0..1, property_index \in 0..(MaxFields - 1)}

InitProperty ==
    /\ \E code \in PropertyChunks :
          chunk = [code |-> code, current_instruction |-> 0,
                   lines |-> <<Line_new(Len(code))>>]
    /\ \E beneath \in {<<>>, <<IntV(7)>>}, locals \in PropertyLocals :
          /\ stack = beneath \o locals
          /\ call_stack = <<CallFrame_new(Len(beneath), 0, n_main)>>
    /\ globals \in PropertyGlobals
    /\ pc = "run"
    /\ source = <<>>
    /\ compiler = NoCompiler
    /\ had_error = FALSE
    /\ result = NoResult
    /\ output = <<>>
    /\ executed = NothingExecuted
    /\ main_return = NoMainReturn
    /\ entered = <<>>
    /\ calls = <<>>
    /\ written = <<>>
    /\ cleared = FALSE
    /\ last_next = None
    /\ LexerIdle
    /\ TypesIdle
    /\ PoolIdle
    /\ panicked = FALSE

NextProperty == ExecLocal \/ ExecGlobal \/ ExecObject \/ Halt

SpecProperty == InitProperty /\ [][NextProperty]_vars

\* The stack index of local slot object_index of the running frame
LocalSlot(object_index) == Last(call_stack).stack_index + object_index + 1

\* The loop is about to execute SetLocalProperty on a local that holds an
\* instance with the field
SetLocalPropertyFetched ==
    /\ Running
    /\ Fetched.op = "SetLocalProperty"
    /\ stack # <<>>
    /\ LocalSlot(Fetched.a) <= Len(stack)
    /\ stack[LocalSlot(Fetched.a)].t = "Instance"
    /\ Fetched.b < Len(stack[LocalSlot(Fetched.a)].p)

\* The loop is about to execute SetGlobalProperty on a global that holds an
\* instance with the field
SetGlobalPropertyFetched ==
    /\ Running
    /\ Fetched.op = "SetGlobalProperty"
    /\ stack # <<>>
    /\ Fetched.a < Len(globals)
    /\ globals[Fetched.a + 1] # None
    /\ globals[Fetched.a + 1].v.t = "Instance"
    /\ Fetched.b < Len(globals[Fetched.a + 1].v.p)

\* The instance with field property_index made value
WithProperty(instance, property_index, value) ==
    [instance EXCEPT !.p =
        [n \in 1..Len(instance.p) |->
            IF n = property_index + 1 THEN value ELSE instance.p[n]]]

\* C33: GetLocal and GetGlobal push the value of the slot and leave the
\* slot as it is; SetLocalProperty(o, f) makes field f of the instance in
\* local o of the frame the value on top of the stack and SetGlobalProperty
\* does so for global o, and every other field, stack slot and global and
\* the size of the stack are as before.
C33_SetPropertyChangesOneField ==
    [][/\ SetLocalPropertyFetched =>
             /\ ~panicked' /\ ~had_error'
             /\ globals' = globals
             /\ stack' = [n \in 1..Len(stack) |->
                             IF n = LocalSlot(Fetched.a)
                             THEN WithProperty(stack[n], Fetched.b, Last(stack))
                             ELSE stack[n]]
       /\ SetGlobalPropertyFetched =>
             /\ ~panicked' /\ ~had_error'
             /\ stack' = stack
             /\ globals' = [n \in 1..Len(globals) |->
                               IF n = Fetched.a + 1
                               THEN Some(WithProperty(globals[n].v, Fetched.b,
                                                      Last(stack)))
                               ELSE globals[n]]
       /\ (Running /\ Fetched.op = "GetLocal" /\ LocalSlot(Fetched.a) <= Len(stack)) =>
             /\ stack' = Append(stack, stack[LocalSlot(Fetched.a)])
             /\ globals' = globals
       /\ (GlobalFetched("GetGlobal") /\ SlotDefined(Fetched.a)) =>
             /\ stack' = Append(stack, globals[Fetched.a + 1].v)
             /\ globals' = globals]_vars

\* Over a slot beneath the frame, GetLocal(0) has pushed a copy of the
\* instance in local 0 and SetLocalProperty(0, 1) has made it field 1 of
\* local 0: the copy on top and the instance in local 1 are as they were
C33_Witness ==
    /\ executed.op = Op2("SetLocalProperty", 0, 1)
    /\ stack = <<IntV(7), InstanceV(<<"P">>, <<IntV(1), Point>>), Point, Point>>
    /\ globals[1] = Some(Point)

\* GetGlobal(0) has pushed a copy of the instance in global 0 and
\* SetGlobalProperty(0, 0) has made it field 0 of global 0
C33_WitnessGlobal ==
    /\ executed.op = Op2("SetGlobalProperty", 0, 0)
    /\ globals = <<Some(InstanceV(<<"P">>, <<Point, IntV(2)>>)), Some(IntV(3))>>
    /\ Last(stack) = Point

(***************************************************************************)
(* SquatType equality on its own: one comparison of two types.             *)
(***************************************************************************)
MaxParams == 1

PrimitiveTypes == {NilT, IntT, FloatT, BoolT, StringT, TypeT}
ParameterLists ==
    UNION {[1..n -> {IntT, NumberT}] : n \in 0..MaxParams}
ComparedTypes ==
    PrimitiveTypes \cup {NumberT, AnyT}
    \cup {FunctionT(params, ret) : params \in ParameterLists, ret \in {NilT, IntT}}
    \cup {NativeFunctionT(<<AnyT>>, NilT), NativeFunctionT(<<IntT>>, IntT)}
    \cup {ClassT(name, field_types) :
             name \in {<<"P">>, <<"Q">>}, field_types \in {<<>>, <<IntT>>}}
    \cup {InstanceT(<<"P">>), InstanceT(<<"Q">>)}

InitType ==
    /\ compared \in {[left |-> x, right |-> y, equal |-> None] :
                        x \in ComparedTypes, y \in ComparedTypes}
    /\ InterpreterIdle
    /\ LexerIdle
    /\ ChunkIdle
    /\ PoolIdle
    /\ panicked = FALSE

\* left == right
CompareTypes ==
    /\ ~compared.equal.some
    /\ compared' = [compared EXCEPT
                       !.equal = Some(SquatType_eq(compared.left, compared.right))]
    /\ UNCHANGED <<chunk, written, cleared, last_next, pool, writes, panicked,
                   source, pc, compiler, stack, call_stack, globals, had_error,
                   result, output, executed, main_return, entered, calls, lexer,
                   scanned>>

NextType == CompareTypes

SpecType == InitType /\ [][NextType]_vars

\* The pairs stated equal: identical primitive types, a pair with Any,
\* Number with Int, Float or Number, two Function or two NativeFunction
\* types with equal parameter types and return types, two Instance types of
\* one struct name, and two Struct types of one name (with_fields: and of
\* equal field types)
RECURSIVE StatedEqual(_, _, _)
StatedEqual(x, y, with_fields) ==
    \/ x \in PrimitiveTypes /\ y = x
    \/ x = AnyT \/ y = AnyT
    \/ x = NumberT /\ y \in {IntT, FloatT, NumberT}
    \/ y = NumberT /\ x \in {IntT, FloatT}
    \/ /\ x.k \in {"Function", "NativeFunction"} /\ y.k = x.k
       /\ Len(x.params) = Len(y.params)
       /\ \A n \in 1..Len(x.params) :
             StatedEqual(x.params[n], y.params[n], with_fields)
       /\ StatedEqual(x.ret[1], y.ret[1], with_fields)
    \/ x.k = "Instance" /\ y.k = "Instance" /\ x.name = y.name
    \/ /\ x.k = "Class" /\ y.k = "Class" /\ x.name = y.name
       /\ with_fields =>
             /\ Len(x.params) = Len(y.params)
             /\ \A n \in 1..Len(x.params) :
                   StatedEqual(x.params[n], y.params[n], with_fields)

C34_WitnessFunction ==
    /\ compared.left = FunctionT(<<NumberT>>, IntT)
    /\ compared.right = FunctionT(<<IntT>>, IntT)
    /\ compared.equal = Some(TRUE)

(***************************************************************************)
(* The lexer on operator texts: the one or two character tokens, a digit   *)
(* and a space.                                                            *)
(***************************************************************************)
MaxOperatorText == 3

OperatorAlphabet == {"!", "=", "<", ">", "+", "1", " "}
OperatorTexts == UNION {[1..n -> OperatorAlphabet] : n \in 0..MaxOperatorText}

InitOperators ==
    /\ lexer \in {Lexer_new(text) : text \in OperatorTexts}
    /\ scanned = <<>>
    /\ TypesIdle
    /\ InterpreterIdle
    /\ ChunkIdle
    /\ PoolIdle
    /\ panicked = FALSE

SpecOperators == InitOperators /\ [][NextLexer]_vars

\* The character scan_token is to take next
NextCharacter == lexer.source[lexer.source_iterator + 1]

\* scan_token is called with one of ! = < > + as the next character
OperatorNext ==
    /\ ~panicked
    /\ Len(scanned) < MaxScans
    /\ lexer.source_iterator < Len(lexer.source)
    /\ \E t \in OneOrTwo : t.first = NextCharacter

\* The character is immediately followed by the one that joins it
Joined(t) ==
    /\ lexer.source_iterator + 2 <= Len(lexer.source)
    /\ lexer.source[lexer.source_iterator + 2] = t.second

\* C35: with ! = < > or + next, scan_token returns the two character token
\* when the character that joins it follows immediately, and the token of
\* the one character in every other case, the end of the source included.
C35_OneOrTwoCharacters ==
    [][OperatorNext =>
          \A t \in OneOrTwo :
              t.first = NextCharacter =>
                  Last(scanned') =
                      IF Joined(t)
                      THEN Tok(t.two, <<t.first, t.second>>, lexer.line)
                      ELSE Tok(t.one, <<t.first>>, lexer.line)]_vars

(***************************************************************************)
(* Claims about declarations without an initialiser.                       *)
(***************************************************************************)
\* The zero-like value of a declared type: 0, 0.0, "", false, and Nil for
\* the class and function types
ZeroValue(type) ==
    CASE type = <<kw_int>> -> IntV(0)
      [] type = <<kw_float>> -> FloatV(0)
      [] type = <<kw_string>> -> StringV(<<>>)
      [] type = <<kw_bool>> -> BoolV(FALSE)
      [] OTHER -> NilV

\* The index of the first instruction of the statement of an
\* ExpressionProgram: main's code starts with the one instruction of
\* `int a = 2;` and the three of `P p = P(1);`
DeclarationIp == compiler.main_start + 4

\* C36: `var c;` is a compile error; `type c;` compiles without error, and
\* its instruction leaves the zero-like value of the type in c's slot: 0 for
\* int, 0.0 for float, "" for string, false for bool, Nil for a class or a
\* function type.
C36_UninitializedDeclaration ==
    (source \in UninitializedPrograms /\ pc # "source") =>
        \A type \in DeclaredTypes :
            source = ExpressionProgram(Uninitialized(type)) =>
                IF type = <<kw_var>>
                THEN compiler.status = "Fail" /\ compiler.errors # <<>>
                ELSE /\ compiler.status = "Success"
                     /\ compiler.errors = <<>>
                     /\ (pc = "run" /\ executed.ip = DeclarationIp) =>
                           /\ Len(stack) = 3
                           /\ stack[3] = ZeroValue(type)

(***************************************************************************)
(* Comments and string literals: scan_token on texts of slashes, stars,    *)
(* line ends, quotes and a character outside ASCII.                        *)
(***************************************************************************)
MaxCommentText == 5

CommentAlphabet == {"/", "*", "\n", "\"", NonAscii}

CommentTexts == UNION {[1..n -> CommentAlphabet] : n \in 0..MaxCommentText}

InitComment ==
    /\ lexer \in {Lexer_new(text) : text \in CommentTexts}
    /\ scanned = <<>>
    /\ TypesIdle
    /\ InterpreterIdle
    /\ ChunkIdle
    /\ PoolIdle
    /\ panicked = FALSE

SpecComment == InitComment /\ [][NextLexer]_vars

\* The characters scan_token has not taken yet
Rest == SubSeq(lexer.source, lexer.source_iterator + 1, Len(lexer.source))

\* The line ends among text[a..b]
RECURSIVE LineEnds(_, _, _)
LineEnds(text, a, b) ==
    IF b < a THEN 0
    ELSE LineEnds(text, a, b - 1) + (IF text[b] = "\n" THEN 1 ELSE 0)

\* text[i..i+1] is the pair of characters first, second
PairAt(text, i, first, second) ==
    i + 1 <= Len(text) /\ text[i] = first /\ text[i + 1] = second

\* Where the comment text that `/*` opens at i closes: the indices of the
\* star of a `*/` behind the `/*`
Closings(text, i) == {k \in (i + 2)..Len(text) : PairAt(text, k, "*", "/")}

Minimum(S) == CHOOSE k \in S : \A l \in S : k <= l

\* The end of the line of i, or of the text
LineEnd(text, i) ==
    IF \E k \in i..Len(text) : text[k] = "\n"
    THEN Minimum({k \in i..Len(text) : text[k] = "\n"})
    ELSE Len(text)

\* What lies before the next token of text from i on, as the language has
\* it: line ends, `//` comments up to the end of their line, `/* */`
\* comments.  at is the index of the first character of the token (beyond
\* the text when there is none), open says that a `/*` is never closed and
\* closed that a `/* */` comment was passed
RECURSIVE Blank(_, _, _)
Blank(text, i, closed) ==
    IF i > Len(text) THEN [at |-> i, open |-> FALSE, closed |-> closed]
    ELSE IF text[i] = "\n" THEN Blank(text, i + 1, closed)
    ELSE IF PairAt(text, i, "/", "/")
    THEN Blank(text, LineEnd(text, i) + 1, closed)
    ELSE IF PairAt(text, i, "/", "*")
    THEN IF Closings(text, i) = {}
         THEN [at |-> i, open |-> TRUE, closed |-> closed]
         ELSE Blank(text, Minimum(Closings(text, i)) + 2, TRUE)
    ELSE [at |-> i, open |-> FALSE, closed |-> closed]

\* The string literal that opens at i is never closed
OpenString(text, i) ==
    /\ i <= Len(text) /\ text[i] = "\""
    /\ \A k \in (i + 1)..Len(text) : text[k] # "\""

\* The line of the character at i of Rest
LineAt(i) == lexer.line + LineEnds(Rest, 1, i - 1)

Scans == scanned' # scanned

\* C37: a `/*` that is never closed makes scan_token return
\* Err(IncompleteComment) with the line of the end of the input, a string
\* literal that is never closed makes it return Err(IncompleteString), and
\* after a closed comment scan_token returns what follows the comment, with
\* the line on which that starts.
C37_Unterminated ==
    [][Scans =>
        LET next == Blank(Rest, 1, FALSE)
            item == Last(scanned')
        IN  /\ next.open =>
                  item = LexerError("IncompleteComment", LineAt(Len(Rest) + 1))
            /\ (~next.open /\ OpenString(Rest, next.at)) =>
                  /\ item.type = "LexError"
                  /\ item.lexeme = <<"IncompleteString">>
            /\ (~next.open /\ next.closed) =>
                  /\ ~panicked'
                  /\ item.lexeme # <<"IncompleteComment">>
                  /\ (item.type # "LexError" /\ next.at <= Len(Rest)
                      /\ Rest[next.at] # "\"") =>
                        /\ item.line = LineAt(next.at)
                        /\ item.lexeme[1] = Rest[next.at]
                  /\ next.at > Len(Rest) =>
                        item = Tok("Eof", <<>>, LineAt(next.at))]_vars

(***************************************************************************)
(* Claims about the globals and the locals of a compiled program.          *)
(***************************************************************************)
\* C38: in a program that compile returned Success for, the slot of every
\* GetGlobal and SetGlobal that is about to execute holds a value.
C38_GlobalsDefined ==
    (Running /\ compiler.status = "Success"
     /\ Fetched.op \in {"GetGlobal", "SetGlobal"}) =>
        /\ Fetched.a < Len(globals)
        /\ globals[Fetched.a + 1].some

\* The body of two, called by the initialiser of g, is about to set x
C38_Witness ==
    /\ source = Lines(<<G_x, F_bump, G_g_call, M_open, S_print_g, S_set_x,
                        M_close>>, 1)
    /\ Running /\ compiler.status = "Success"
    /\ Fetched.op = "SetGlobal" /\ Len(call_stack) = 2
    /\ globals[Fetched.a + 1].some

\* The initialiser of g, behind main, is about to read x
C38_WitnessInitialiser ==
    /\ source = Lines(<<G_x, M_open, S_while, M_close, G_g_x>>, 1)
    /\ Running /\ compiler.status = "Success"
    /\ Fetched.op = "GetGlobal"
    /\ compiler.code[chunk.current_instruction + 2].op = "DefineGlobal"
    /\ globals[Fetched.a + 1].some

LocalOps == {"GetLocal", "SetLocal", "GetLocalProperty", "SetLocalProperty"}

\* An instruction that addresses a local is about to execute
LocalFetched ==
    Running /\ compiler.status = "Success" /\ Fetched.op \in LocalOps

\* The stack_index of the frame on top of the call stack
StackBase == Last(call_stack).stack_index

\* What the operand stack holds for slot i of that frame
Slot(i) == stack[StackBase + i + 1]

InFrame(name) == call_stack # <<>> /\ Last(call_stack).func_name = name

\* C39: in a program that compile returned Success for, whenever GetLocal(i),
\* SetLocal(i), GetLocalProperty(i, f) or SetLocalProperty(i, f) is about to
\* execute the call stack is not empty and stack_base + i is an index of the
\* operand stack that holds the local of slot i: an instance with a field f
\* for the property instructions; in the main of an ExpressionProgram a = 2
\* in slot 0 and p = P(1) in slot 1; in id the parameter a in slot 0 and b,
\* its copy, in slot 1.
C39_LocalsAligned ==
    LocalFetched =>
        /\ call_stack # <<>>
        /\ StackBase + Fetched.a < Len(stack)
        /\ Fetched.op \in {"GetLocalProperty", "SetLocalProperty"} =>
              /\ Slot(Fetched.a).t = "Instance"
              /\ Fetched.b < Len(Slot(Fetched.a).p)
        /\ (source \in ExpressionPrograms /\ InFrame(id_main.lexeme)) =>
              /\ Fetched.a = 0 => Slot(0) = IntV(2)
              /\ Fetched.a = 1 => Slot(1) = InstanceV(id_P.lexeme, <<IntV(1)>>)
        /\ (InFrame(id_id.lexeme) /\ Fetched.a = 1) => Slot(1) = Slot(0)

(***************************************************************************)
(* Claims about how compile ends.                                          *)
(***************************************************************************)
\* C40: compile returns Success or Fail for every source, and a compile that
\* fails on a source with a main has reported an error through
\* compile_error.
C40_CompileReturns ==
    pc # "source" =>
        /\ compiler.status \in {"Success", "Fail"}
        /\ (compiler.status = "Fail" /\ compiler.found_main) =>
              compiler.errors # <<>>

====
